---- MODULE Spec2Model ----
(***************************************************************************)
(* Emotion-state decoding subsystem of daonLIT/VP2.                        *)
(*                                                                         *)
(*   app/services/emotion/emoti_shing_hmm.py   parameters, normalize_emotion,*)
(*                                             viterbi_decode               *)
(*   app/services/hmm/runner.py                _forward_backward_gamma,     *)
(*                                             run_hmm_on_emotions          *)
(*                                                                         *)
(* Numbers.  Python floats are modelled by exact rationals [n, d] kept in  *)
(* lowest terms (0.24 is 24/100 = 6/25).  The log-space values of          *)
(* viterbi_decode are carried as the exact probability they are the log of,*)
(* written over the fixed scale LogScale(t) = BScale^(t+1) * AScale^t of   *)
(* timestep t: log x + log y is the product, -inf is 0, and > on logs is > *)
(* on the scaled integers.  The log-likelihood of the forward pass is      *)
(* carried as the list of factors whose logs are summed.                   *)
(*                                                                         *)
(* Strings.  A Python str is a sequence of characters; a character is a    *)
(* one-letter TLA+ string, and a Hangul syllable is written "H_<roman>"    *)
(* (one character, caseless, not whitespace).                              *)
(***************************************************************************)
EXTENDS Integers, Sequences, FiniteSets

(* ------------------------------- bounds -------------------------------- *)

\* longest observation sequence handed to the decoders
MaxT == 3
\* most whitespace characters put on either side of a label
MaxPad == 1

(* ----------------------------- python values --------------------------- *)

None == [t |-> "none"]
Absent == [t |-> "absent"]
StrV(chars) == [t |-> "str", s |-> chars]
IntV(i) == [t |-> "int", i |-> i]
ListV(l) == [t |-> "list", l |-> l]
DictV(d) == [t |-> "dict", d |-> d]

Ok(v) == [ok |-> TRUE, val |-> v]
Raise(exc, msg) == [ok |-> FALSE, exc |-> exc, msg |-> msg]

(* ------------------------------ numbers -------------------------------- *)

RECURSIVE GCD(_, _)
GCD(a, b) == IF b = 0 THEN a ELSE GCD(b, a % b)

LCM(a, b) == (a \div GCD(a, b)) * b

\* the rational n/d in lowest terms, d > 0
Rat(n, d) ==
    LET g == GCD(IF n < 0 THEN -n ELSE n, IF d < 0 THEN -d ELSE d)
        sgn == IF d < 0 THEN -1 ELSE 1
    IN  [n |-> sgn * (n \div g), d |-> sgn * (d \div g)]

RZero == [n |-> 0, d |-> 1]
ROne == [n |-> 1, d |-> 1]

\* a two-decimal literal such as 0.24, given in hundredths
Dec(h) == Rat(h, 100)

RAdd(x, y) ==
    LET g == GCD(x.d, y.d)
    IN  Rat(x.n * (y.d \div g) + y.n * (x.d \div g), (x.d \div g) * y.d)

\* the factors are cross-reduced first, so no intermediate exceeds the result
RMul(x, y) ==
    LET g1 == GCD(IF x.n < 0 THEN -x.n ELSE x.n, y.d)
        g2 == GCD(IF y.n < 0 THEN -y.n ELSE y.n, x.d)
    IN  [n |-> (x.n \div g1) * (y.n \div g2), d |-> (x.d \div g2) * (y.d \div g1)]

\* x / y for y > 0
RDiv(x, y) == RMul(x, [n |-> y.d, d |-> y.n])

RECURSIVE RSumTo(_, _)
\* f[0] + ... + f[k]
RSumTo(f, k) == IF k < 0 THEN RZero ELSE RAdd(RSumTo(f, k - 1), f[k])

\* sum(row) of a row indexed from 0
RSum(f) == RSumTo(f, Cardinality(DOMAIN f) - 1)

\* a Python list, indexed from 0
List0(tuple) == [k \in 0..(Len(tuple) - 1) |-> tuple[k + 1]]

\* a list of lists, indexed from 0
Mat0(rows) == List0([k \in 1..Len(rows) |-> List0(rows[k])])

(* ------------------------------- str ----------------------------------- *)

Uppers == <<"A","B","C","D","E","F","G","H","I","J","K","L","M",
            "N","O","P","Q","R","S","T","U","V","W","X","Y","Z">>
Lowers == <<"a","b","c","d","e","f","g","h","i","j","k","l","m",
            "n","o","p","q","r","s","t","u","v","w","x","y","z">>
Digits == <<"0","1","2","3","4","5","6","7","8","9">>
Whitespace == {" ", "\t"}

LowerChar(c) ==
    IF \E k \in 1..Len(Uppers) : Uppers[k] = c
    THEN Lowers[CHOOSE k \in 1..Len(Uppers) : Uppers[k] = c]
    ELSE c

UpperChar(c) ==
    IF \E k \in 1..Len(Lowers) : Lowers[k] = c
    THEN Uppers[CHOOSE k \in 1..Len(Lowers) : Lowers[k] = c]
    ELSE c

\* str.lower()
Lower(s) == [k \in 1..Len(s) |-> LowerChar(s[k])]

\* str.upper()
Upper(s) == [k \in 1..Len(s) |-> UpperChar(s[k])]

\* str.strip(): drops the leading and the trailing whitespace
Strip(s) ==
    LET keep == {k \in 1..Len(s) : s[k] \notin Whitespace}
    IN  IF keep = {} THEN <<>>
        ELSE LET lo == CHOOSE k \in keep : \A m \in keep : k <= m
                 hi == CHOOSE k \in keep : \A m \in keep : k >= m
             IN  SubSeq(s, lo, hi)

RECURSIVE IntToStr(_)
\* str(i) of a non-negative int
IntToStr(i) ==
    IF i < 10 THEN <<Digits[i + 1]>>
    ELSE IntToStr(i \div 10) \o <<Digits[(i % 10) + 1]>>

\* str(label) of a label that is not a dict
PyStr(v) ==
    CASE v.t = "str" -> v.s
      [] v.t = "int" -> IntToStr(v.i)
      [] v.t = "none" -> <<"N","o","n","e">>

IsDigits(s) == Len(s) > 0 /\ \A k \in 1..Len(s) : \E m \in 1..10 : Digits[m] = s[k]

RECURSIVE StrToInt(_)
StrToInt(s) ==
    IF Len(s) = 0 THEN 0
    ELSE 10 * StrToInt(SubSeq(s, 1, Len(s) - 1))
         + ((CHOOSE m \in 1..10 : Digits[m] = s[Len(s)]) - 1)

(* ----------------------- emoti_shing_hmm.py: tables -------------------- *)

V1 == <<"V","1">>
V2 == <<"V","2">>
V3 == <<"V","3">>

STATES == <<V1, V2, V3>>

neutral == <<"n","e","u","t","r","a","l">>
anger == <<"a","n","g","e","r">>
fear == <<"f","e","a","r">>
excitement == <<"e","x","c","i","t","e","m","e","n","t">>

EMOTIONS == <<neutral, anger, fear, excitement>>

STATE_TO_IDX == [s \in {STATES[k] : k \in 1..Len(STATES)} |->
                    (CHOOSE k \in 1..Len(STATES) : STATES[k] = s) - 1]
EMO_TO_IDX == [e \in {EMOTIONS[k] : k \in 1..Len(EMOTIONS)} |->
                    (CHOOSE k \in 1..Len(EMOTIONS) : EMOTIONS[k] = e) - 1]

\* the dict literal DEFAULT_EMOTION_ALIASES, as its (key, value) items
AliasItems ==
    { <<<<"n">>, neutral>>, <<<<"f">>, fear>>, <<<<"a">>, anger>>, <<<<"e">>, excitement>>,
      <<neutral, neutral>>,
      <<<<"H_jung","H_rip">>, neutral>>,
      <<<<"H_jung","H_rip","H_gam">>, neutral>>,
      <<<<"H_mu","H_gam","H_jeong">>, neutral>>,
      <<<<"H_pyeong","H_on">>, neutral>>,
      <<anger, anger>>,
      <<<<"a","n","g","r","y">>, anger>>,
      <<<<"H_bun","H_no">>, anger>>,
      <<<<"H_hwa","H_nam">>, anger>>,
      <<<<"H_jja","H_jeung">>, anger>>,
      <<<<"H_hyeom","H_o">>, anger>>,
      <<fear, fear>>,
      <<<<"a","f","r","a","i","d">>, fear>>,
      <<<<"H_gong","H_po">>, fear>>,
      <<<<"H_du","H_ryeo","H_um">>, fear>>,
      <<<<"H_bul","H_an">>, fear>>,
      <<excitement, excitement>>,
      <<<<"e","x","c","i","t","e","d">>, excitement>>,
      <<<<"H_heung","H_bun">>, excitement>>,
      <<<<"H_gi","H_dae">>, excitement>>,
      <<<<"H_seol","H_rem">>, excitement>>,
      <<<<"H_gi","H_ppeum">>, excitement>>,
      <<<<"H_haeng","H_bok">>, excitement>>,
      <<<<"H_seul","H_peum">>, neutral>>,
      <<<<"H_nol","H_la","H_um">>, excitement>> }

\* a dict from str to str built from its items
DictOf(items) ==
    [k \in {it[1] : it \in items} |-> (CHOOSE it \in items : it[1] = k)[2]]

\* the pred8 value that denotes surprise
SURPRISE == <<"H_nol","H_la","H_um">>

(* --------------------- emoti_shing_hmm.py: parameters ------------------ *)

\* faulty variant of A_RAW: the columns of V1 and V2 are exchanged, so that V1 is
\* the likeliest successor of V1
A_RAW_V1_LIKELY ==
    Mat0(<< <<Dec(44), Dec(22), Dec(33)>>,
            <<Dec(33), Dec(22), Dec(44)>>,
            <<Dec(33), Dec(22), Dec(44)>> >>)

\* _A_RAW (Table 4), rows from V1, V2, V3
A_RAW ==
    Mat0(<< <<Dec(22), Dec(44), Dec(33)>>,
            <<Dec(22), Dec(33), Dec(44)>>,
            <<Dec(22), Dec(33), Dec(44)>> >>)

\* _B (Table 5), columns neutral, anger, fear, excitement
B_TABLE ==
    Mat0(<< <<Dec(24), Dec(28), Dec(16), Dec(32)>>,
            <<Dec(24), Dec(28), Dec(16), Dec(32)>>,
            <<Dec(31), Dec(23), Dec(15), Dec(31)>> >>)

\* _PI (Eq. 33)
PI_TABLE == List0(<<ROne, RZero, RZero>>)

\* faulty variant of normalize_rows: only a negative row sum raises, a row
\* summing to zero is returned as it is
normalize_rows_zero_passes(mat) ==
    IF \E r \in DOMAIN mat : RSum(mat[r]).n < 0
    THEN Raise("ValueError", "Matrix row sum must be > 0.")
    ELSE Ok([r \in DOMAIN mat |->
                [k \in DOMAIN mat[r] |->
                    IF RSum(mat[r]).n = 0 THEN mat[r][k]
                    ELSE RDiv(mat[r][k], RSum(mat[r]))]])

\* _normalize_rows: every row divided by its sum; a row summing to <= 0 raises
normalize_rows(mat) ==
    IF \E r \in DOMAIN mat : RSum(mat[r]).n <= 0
    THEN Raise("ValueError", "Matrix row sum must be > 0.")
    ELSE Ok([r \in DOMAIN mat |->
                [k \in DOMAIN mat[r] |-> RDiv(mat[r][k], RSum(mat[r]))]])

VARIABLES
    A,                        \* module global A = _normalize_rows(_A_RAW)
    B,                        \* module global _B
    PI,                       \* module global _PI
    DEFAULT_EMOTION_ALIASES,  \* module global alias dict
    call,                     \* the call being made: [op, ...arguments]
    pc,                       \* "call" before the callee ran, "done" after
    ret,                      \* what the callee returned or raised
    turns,                    \* the caller's turn list, which annotation changes in place
    preds,                   \* what emotion_service.predict_batch returned to the call
    threads,                 \* the decode calls running concurrently, by caller
    SUMMARY_CACHE,           \* tools_summary.py module global: the result cache
    db,                      \* the database session of make_admin_tools: summary rows and case evidence
    judged                   \* history: the admin tool calls made and the verdicts make_judgement persisted

vars == <<A, B, PI, DEFAULT_EMOTION_ALIASES, call, pc, ret, turns, preds, threads, SUMMARY_CACHE, db, judged>>

(* ------------------- emoti_shing_hmm.py: normalize_emotion ------------- *)

\* faulty variant of label.get: surprise_to is never found
DictGet_NoSurpriseTo(d, key) ==
    IF key = "surprise_to" \/ d[key].t = "absent" THEN None ELSE d[key]

\* label.get(key)
DictGet(d, key) == IF d[key].t = "absent" THEN None ELSE d[key]

\* float(x) of one probs4 element: [ok, val]
PyFloat(x) ==
    CASE x.t = "int" -> Ok(x.i)
      [] x.t = "str" /\ IsDigits(Strip(x.s)) -> Ok(StrToInt(Strip(x.s)))
      [] OTHER -> Raise("ValueError", "could not convert to float")

\* max(range(4), key=...): the first index holding the largest key
ArgMaxFirst(keys) ==
    CHOOSE k \in 1..Len(keys) :
        /\ \A m \in 1..Len(keys) : keys[m] <= keys[k]
        /\ \A m \in 1..(k - 1) : keys[m] < keys[k]

\* faulty variant of map_probs4_to_code: the columns are read in the storage
\* order of EMOTIONS
map_probs4_storage_order(probs4) ==
    IF probs4.t # "list" \/ Len(probs4.l) # 4 THEN None
    ELSE IF \E k \in 1..4 : ~PyFloat(probs4.l[k]).ok THEN None
    ELSE LET order == <<"N", "A", "F", "E">>
             mx_i == ArgMaxFirst([k \in 1..4 |-> PyFloat(probs4.l[k]).val])
         IN  StrV(<<order[mx_i]>>)

\* lines 120-134
map_probs4_to_code(probs4) ==
    IF probs4.t # "list" \/ Len(probs4.l) # 4 THEN None
    ELSE IF \E k \in 1..4 : ~PyFloat(probs4.l[k]).ok THEN None
    ELSE LET order == <<"N", "F", "A", "E">>
             mx_i == ArgMaxFirst([k \in 1..4 |-> PyFloat(probs4.l[k]).val])
         IN  StrV(<<order[mx_i]>>)

\* faulty variant of AliasTarget: the mapped value is returned unchecked
AliasTarget_Unchecked(aliases, key) == Ok(Lower(Strip(aliases[key])))

\* the alias lookup of lines 185-199: mapped = str(aliases[key]).strip().lower()
AliasTarget(aliases, key) ==
    LET mapped == Lower(Strip(aliases[key]))
    IN  IF mapped \notin DOMAIN EMO_TO_IDX
        THEN Raise("ValueError", "Alias mapped to invalid emotion")
        ELSE Ok(mapped)

\* faulty variant of CleanLabel: the label is not lowercased
CleanLabel_NoLower(label) == Strip(PyStr(label))

\* line 178: s = str(label).strip().lower()
CleanLabel(label) == Lower(Strip(PyStr(label)))

\* lines 178-201: the label is not a dict
normalize_str(label, aliases0, defaults) ==
    LET s == CleanLabel(label)
        aliases == IF aliases0.t = "none" \/ DOMAIN aliases0.m = {}
                   THEN defaults ELSE aliases0.m
        raw == Strip(PyStr(label))
    IN  IF s \in DOMAIN EMO_TO_IDX THEN Ok(s)
        ELSE IF s \in DOMAIN aliases THEN AliasTarget(aliases, s)
        ELSE IF raw \in DOMAIN aliases THEN AliasTarget(aliases, raw)
        ELSE Raise("ValueError", "Unsupported emotion label")

RECURSIVE normalize_emotion(_, _, _)
normalize_emotion(label, aliases, defaults) ==
    IF label.t = "none" THEN Raise("ValueError", "Emotion label is None")
    ELSE IF label.t = "dict" THEN
        LET d == label.d
            pred8 == DictGet(d, "pred8")
            st == DictGet(d, "surprise_to")
            code == map_probs4_to_code(DictGet(d, "probs4"))
        IN  IF d["pred4"].t \notin {"absent", "none"}
            THEN normalize_emotion(d["pred4"], aliases, defaults)
            ELSE IF pred8.t = "str" /\ Strip(pred8.s) = SURPRISE
            THEN IF st.t # "none"
                 THEN normalize_emotion(st, aliases, defaults)
                 ELSE normalize_emotion(pred8, aliases, defaults)
            ELSE IF code.t # "none"
            THEN normalize_emotion(code, aliases, defaults)
            ELSE IF pred8.t # "none"
            THEN normalize_emotion(pred8, aliases, defaults)
            ELSE Raise("ValueError", "Unsupported emotion dict (no usable keys)")
    ELSE normalize_str(label, aliases, defaults)

(* -------------------- emoti_shing_hmm.py: viterbi_decode --------------- *)

N == Len(STATES)

RECURSIVE LCMSet(_)
LCMSet(S) ==
    IF S = {} THEN 1
    ELSE LET x == CHOOSE x \in S : TRUE IN LCM(x, LCMSet(S \ {x}))

\* the common denominators of the entries of A, of _B and of _PI as loaded
AScale ==
    LCMSet({normalize_rows(A_RAW).val[r][k].d : r \in DOMAIN A_RAW, k \in 0..(N - 1)})
BScale == LCMSet({B_TABLE[r][k].d : r \in DOMAIN B_TABLE, k \in 0..(Len(EMOTIONS) - 1)})
PIScale == LCMSet({PI_TABLE[r].d : r \in DOMAIN PI_TABLE})

\* float("-inf"), the log of probability 0
NegInf == 0

\* _safe_log(x), x an entry written over `scale`: -inf when x <= 0
safe_log(x, scale) == IF x.n <= 0 THEN NegInf ELSE x.n * (scale \div x.d)

\* the sum of two log values: the product of the probabilities
LogAdd(x, y) == x * y

\* faulty variant of TransVal: the transition term is left out of val
TransVal_NoTransition(prev, i, j) == prev[i]

\* line 247: val = delta[t - 1][i] + _safe_log(A[i][j])
TransVal(prev, i, j) == LogAdd(prev[i], safe_log(A[i][j], AScale))

RECURSIVE ScanBest_LastWins(_, _, _, _)
\* faulty variant of ScanBest: val >= best_val, the last of equal values wins
ScanBest_LastWins(prev, j, i, best) ==
    IF i >= N THEN best
    ELSE LET val == TransVal(prev, i, j)
         IN  ScanBest_LastWins(prev, j, i + 1,
                               IF val >= best.best_val
                               THEN [best_i |-> i, best_val |-> val]
                               ELSE best)

RECURSIVE ScanBest(_, _, _, _)
\* lines 246-250: the scan over i, from i on, with the best found so far
ScanBest(prev, j, i, best) ==
    IF i >= N THEN best
    ELSE LET val == TransVal(prev, i, j)
         IN  ScanBest(prev, j, i + 1,
                      IF val > best.best_val
                      THEN [best_i |-> i, best_val |-> val]
                      ELSE best)

\* lines 244-250: best_i = 0, best_val = -inf, then the scan
BestPred(prev, j) == ScanBest(prev, j, 0, [best_i |-> 0, best_val |-> NegInf])

\* faulty variant of ViterbiInit: delta[0] without the log(pi) term
ViterbiInit_IgnoresPi(obs_norm) ==
    LET o0 == EMO_TO_IDX[obs_norm[1]]
    IN  [delta |-> [j \in 0..(N - 1) |-> safe_log(B[j][o0], BScale)],
         psi |-> [j \in 0..(N - 1) |-> 0]]

\* lines 236-239: delta[0], psi[0]
ViterbiInit(obs_norm) ==
    LET o0 == EMO_TO_IDX[obs_norm[1]]
    IN  [delta |-> [j \in 0..(N - 1) |->
                       LogAdd(safe_log(PI[j], PIScale), safe_log(B[j][o0], BScale))],
         psi |-> [j \in 0..(N - 1) |-> 0]]

\* lines 242-252: delta[t], psi[t] from delta[t - 1]
ViterbiStep(obs_norm, t, prev) ==
    LET ot == EMO_TO_IDX[obs_norm[t + 1]]
    IN  [delta |-> [j \in 0..(N - 1) |->
                       LogAdd(BestPred(prev, j).best_val, safe_log(B[j][ot], BScale))],
         psi |-> [j \in 0..(N - 1) |-> BestPred(prev, j).best_i]]

RECURSIVE ViterbiRows(_, _)
\* lines 241-252: rows[t + 1] holds delta[t] and psi[t]
ViterbiRows(obs_norm, rows) ==
    IF Len(rows) = Len(obs_norm) THEN rows
    ELSE ViterbiRows(obs_norm,
                     Append(rows, ViterbiStep(obs_norm, Len(rows), rows[Len(rows)].delta)))

\* line 254: max(range(N), key=...), the first index holding the largest value
ArgMaxFirst0(row) ==
    CHOOSE j \in DOMAIN row :
        /\ \A m \in DOMAIN row : row[m] <= row[j]
        /\ \A m \in DOMAIN row : m < j => row[m] < row[j]

RECURSIVE Backtrack_StopsEarly(_, _, _)
\* faulty variant of Backtrack: range(T - 1, 1, -1), one step short
Backtrack_StopsEarly(rows, t, path_idx) ==
    IF t <= 1 THEN path_idx
    ELSE Backtrack_StopsEarly(rows, t - 1,
                   Append(path_idx, rows[t + 1].psi[path_idx[Len(path_idx)]]))

RECURSIVE Backtrack(_, _, _)
\* lines 258-260: for t in range(T - 1, 0, -1): path_idx.append(psi[t][path_idx[-1]])
Backtrack(rows, t, path_idx) ==
    IF t <= 0 THEN path_idx
    ELSE Backtrack(rows, t - 1,
                   Append(path_idx, rows[t + 1].psi[path_idx[Len(path_idx)]]))

\* list.reverse()
Reverse(seq) == [k \in 1..Len(seq) |-> seq[Len(seq) + 1 - k]]

RECURSIVE CountStates_MissesLast(_, _, _)
\* faulty variant of CountStates: the last state of the path is not counted
CountStates_MissesLast(state_seq, k, counts) ==
    IF k >= Len(state_seq) THEN counts
    ELSE CountStates_MissesLast(state_seq, k + 1,
                     [counts EXCEPT ![state_seq[k]] = counts[state_seq[k]] + 1])

RECURSIVE CountStates(_, _, _)
\* lines 264-266: counts[s] += 1 for the states from position k on
CountStates(state_seq, k, counts) ==
    IF k > Len(state_seq) THEN counts
    ELSE CountStates(state_seq, k + 1,
                     [counts EXCEPT ![state_seq[k]] = counts[state_seq[k]] + 1])

\* what a callee hands back: its value or its exception, and the steps it ran
Returned(v, steps) == [ok |-> TRUE, val |-> v, steps |-> steps]
Failed(err, steps) == [ok |-> FALSE, exc |-> err.exc, msg |-> err.msg, steps |-> steps]

\* the steps of a decode over T normalised labels: one per delta row
DpSteps(T) == [k \in 1..T |-> "delta"]
NormSteps(k) == [m \in 1..k |-> "normalize_emotion"]

\* lines 228-278, after the labels were normalised
ViterbiResult(obs_norm) ==
    LET T == Len(obs_norm)
        rows == ViterbiRows(obs_norm, <<ViterbiInit(obs_norm)>>)
        last == ArgMaxFirst0(rows[T].delta)
        best_logp == rows[T].delta[last]
        path_idx == Reverse(Backtrack(rows, T - 1, <<last>>))
        state_seq == [k \in 1..Len(path_idx) |-> STATES[path_idx[k] + 1]]
        counts == CountStates(state_seq, 1, [s \in DOMAIN STATE_TO_IDX |-> 0])
    IN  [obs |-> obs_norm,
         states |-> state_seq,
         final_state |-> state_seq[Len(state_seq)],
         state_counts |-> counts,
         v3_ratio |-> Rat(counts[V3], T),
         logp |-> best_logp,
         delta |-> [k \in 1..T |-> rows[k].delta],
         psi |-> [k \in 1..T |-> rows[k].psi]]

\* lines 226-278: the labels are normalised in order, the first failure raises
ViterbiBody(obs_seq, emotion_aliases) ==
    LET norm == [k \in 1..Len(obs_seq) |->
                    normalize_emotion(obs_seq[k], emotion_aliases,
                                      DEFAULT_EMOTION_ALIASES)]
        bad == {k \in 1..Len(obs_seq) : ~norm[k].ok}
    IN  IF bad # {}
        THEN LET k == CHOOSE k \in bad : \A m \in bad : k <= m
             IN  Failed(norm[k], NormSteps(k))
        ELSE IF Len(obs_seq) = 0
        THEN Failed(Raise("IndexError", "list index out of range"), <<>>)
        ELSE Returned(ViterbiResult([k \in 1..Len(obs_seq) |-> norm[k].val]),
                      NormSteps(Len(obs_seq)) \o DpSteps(Len(obs_seq)))

\* lines 223-224, then the decode
viterbi_decode(obs_seq, emotion_aliases) ==
    IF Len(obs_seq) = 0
    THEN Failed(Raise("ValueError", "obs_seq is empty (no emotions to decode)."), <<>>)
    ELSE ViterbiBody(obs_seq, emotion_aliases)

(* ------------------ runner.py: _forward_backward_gamma ----------------- *)

\* lines 48-60: alpha[t], c[t] and the unscaled mass s from the scaled alpha[t - 1]
ForwardStep(obs_idx, t, prev) ==
    LET ot == obs_idx[t + 1]
        raw == [j \in 0..(N - 1) |->
                   RMul(RSum([i \in 0..(N - 1) |-> RMul(prev[i], A[i][j])]), B[j][ot])]
        s == RSum(raw)
    IN  IF s.n <= 0
        THEN [alpha |-> raw, c |-> ROne, s |-> s]
        ELSE [alpha |-> [j \in 0..(N - 1) |-> RMul(raw[j], RDiv(ROne, s))],
              c |-> RDiv(ROne, s), s |-> s]

RECURSIVE ForwardRows(_, _)
\* lines 45-60: rows[t + 1] holds alpha[t], c[t], s
ForwardRows(obs_idx, rows) ==
    IF Len(rows) = Len(obs_idx) THEN rows
    ELSE ForwardRows(obs_idx,
                     Append(rows, ForwardStep(obs_idx, Len(rows), rows[Len(rows)].alpha)))

\* faulty variant of BackwardStep: the emission of obs[t], not of obs[t + 1]
BackwardStep_WrongObs(obs_idx, fwd, t, next) ==
    LET ot1 == obs_idx[t + 1]
    IN  [i \in 0..(N - 1) |->
            RMul(RSum([j \in 0..(N - 1) |-> RMul(RMul(A[i][j], B[j][ot1]), next[j])]),
                 fwd[t + 2].c)]

\* lines 68-76: beta[t] from beta[t + 1], scaled by c[t + 1]
BackwardStep(obs_idx, fwd, t, next) ==
    LET ot1 == obs_idx[t + 2]
    IN  [i \in 0..(N - 1) |->
            RMul(RSum([j \in 0..(N - 1) |-> RMul(RMul(A[i][j], B[j][ot1]), next[j])]),
                 fwd[t + 2].c)]

RECURSIVE BackwardRows(_, _, _, _)
\* lines 67-76: for t in range(T - 2, -1, -1); rows holds beta[t + 1], ..., beta[T - 1]
BackwardRows(obs_idx, fwd, t, rows) ==
    IF t < 0 THEN rows
    ELSE BackwardRows(obs_idx, fwd, t - 1,
                      <<BackwardStep(obs_idx, fwd, t, rows[1])>> \o rows)

\* faulty variant of GammaRow: the row sum leaves out the last state
GammaRow_ShortSum(alpha, beta) ==
    LET row == [j \in 0..(N - 1) |-> RMul(alpha[j], beta[j])]
        s == RSumTo(row, N - 2)
    IN  IF s.n <= 0
        THEN [row |-> [j \in 0..(N - 1) |-> Rat(1, N)], uniform |-> TRUE]
        ELSE [row |-> [j \in 0..(N - 1) |-> RDiv(row[j], s)], uniform |-> FALSE]

\* lines 81-86: one row of gamma, and whether it is the uniform fallback
GammaRow(alpha, beta) ==
    LET row == [j \in 0..(N - 1) |-> RMul(alpha[j], beta[j])]
        s == RSum(row)
    IN  IF s.n <= 0
        THEN [row |-> [j \in 0..(N - 1) |-> Rat(1, N)], uniform |-> TRUE]
        ELSE [row |-> [j \in 0..(N - 1) |-> RDiv(row[j], s)], uniform |-> FALSE]

\* faulty variant of LogLik: the sum starts at t = 1 and misses log(c[0])
LogLik_SkipsFirst(c) ==
    [neg_inf |-> FALSE,
     factors |-> [t \in 1..Len(c) |->
                     IF t > 1 /\ c[t].n > 0 THEN RDiv(ROne, c[t]) ELSE ROne]]

\* lines 90-93: loglik = -sum(log(c[t])) over the c[t] > 0, as the factors 1/c[t]
LogLik(c) ==
    [neg_inf |-> FALSE,
     factors |-> [t \in 1..Len(c) |-> IF c[t].n > 0 THEN RDiv(ROne, c[t]) ELSE ROne]]

forward_backward_gamma(obs_norm) ==
    LET T == Len(obs_norm)
    IN  IF \E k \in 1..T : obs_norm[k] \notin DOMAIN EMO_TO_IDX
        THEN Failed(Raise("KeyError", "obs"), <<>>)
        ELSE IF T = 0
        THEN Failed(Raise("IndexError", "list index out of range"), <<>>)
        ELSE
        LET obs_idx == [k \in 1..T |-> EMO_TO_IDX[obs_norm[k]]]
            raw0 == [j \in 0..(N - 1) |-> RMul(PI[j], B[j][obs_idx[1]])]
            s0 == RSum(raw0)
        IN  IF s0.n <= 0
            THEN [ok |-> TRUE,
                  val |-> [gamma |-> [t \in 1..T |-> [j \in 0..(N - 1) |-> Rat(1, N)]],
                           loglik |-> [neg_inf |-> TRUE, factors |-> <<>>]],
                  mass |-> <<s0>>, c |-> <<>>, uniform |-> 1..T, steps |-> <<>>]
            ELSE
            LET c0 == RDiv(ROne, s0)
                fwd == ForwardRows(obs_idx,
                           <<[alpha |-> [j \in 0..(N - 1) |-> RMul(raw0[j], c0)],
                              c |-> c0, s |-> s0]>>)
                beta == BackwardRows(obs_idx, fwd, T - 2,
                                     <<[j \in 0..(N - 1) |-> ROne]>>)
                rows == [t \in 1..T |-> GammaRow(fwd[t].alpha, beta[t])]
            IN  [ok |-> TRUE,
                 val |-> [gamma |-> [t \in 1..T |-> rows[t].row],
                          loglik |-> LogLik([t \in 1..T |-> fwd[t].c])],
                 mass |-> [t \in 1..T |-> fwd[t].s],
                 c |-> [t \in 1..T |-> fwd[t].c],
                 uniform |-> {t \in 1..T : rows[t].uniform},
                 steps |-> [t \in 1..T |-> "alpha"]]

(* --------------------- runner.py: run_hmm_on_emotions ------------------ *)

\* the one value of a local variable, computed once where it is assigned
Only(S) == CHOOSE x \in S : TRUE

\* lines 119-140: path, final_state, final_probs and the returned dict
RunHmmResult(obs_norm, vit, fb) ==
    LET T == Len(obs_norm)
    IN  IF ~vit.ok THEN Failed(vit, NormSteps(T) \o <<"viterbi_decode">>)
        ELSE IF ~fb.ok
        THEN Failed(fb, NormSteps(T) \o <<"viterbi_decode", "_forward_backward_gamma">>)
        ELSE Returned(
                [state_names |-> <<Lower(V1), Lower(V2), Lower(V3)>>,
                 gamma |-> fb.val.gamma,
                 path |-> [k \in 1..Len(vit.val.states) |-> Lower(vit.val.states[k])],
                 final_state |-> Lower(vit.val.final_state),
                 final_probs |-> IF Len(fb.val.gamma) > 0
                                THEN fb.val.gamma[Len(fb.val.gamma)] ELSE None,
                 meta |-> [obs_norm |-> obs_norm,
                           state_counts |-> vit.val.state_counts,
                           v3_ratio |-> vit.val.v3_ratio,
                           viterbi_logp |-> vit.val.logp,
                           loglik |-> fb.val.loglik]],
                NormSteps(T) \o <<"viterbi_decode", "_forward_backward_gamma">>)

\* lines 117 and 123: vit = viterbi_decode(obs_norm); gamma, loglik = _forward_backward_gamma(obs_norm)
RunHmmDecode(obs_norm) ==
    Only({RunHmmResult(obs_norm, vit, fb) :
            vit \in {viterbi_decode([k \in 1..Len(obs_norm) |-> StrV(obs_norm[k])], None)},
            fb \in {forward_backward_gamma(obs_norm)}})

\* line 114: obs_norm = [normalize_emotion(e) for e in emotion_seq]
RunHmmNormalise(emotion_seq) ==
    [k \in 1..Len(emotion_seq) |->
        normalize_emotion(emotion_seq[k], None, DEFAULT_EMOTION_ALIASES)]

\* lines 114-140
RunHmmBody(emotion_seq) ==
    Only({LET bad == {k \in 1..Len(norm) : ~norm[k].ok}
          IN  IF bad # {}
              THEN LET k == CHOOSE k \in bad : \A m \in bad : k <= m
                   IN  Failed(norm[k], NormSteps(k))
              ELSE RunHmmDecode([k \in 1..Len(norm) |-> norm[k].val]) :
          norm \in {RunHmmNormalise(emotion_seq)}})

\* faulty variant of run_hmm_on_emotions: the empty sequence is not turned away
run_hmm_unguarded(emotion_seq) == RunHmmBody(emotion_seq)

\* lines 111-112, then the run
run_hmm_on_emotions(emotion_seq) ==
    IF Len(emotion_seq) = 0 THEN Returned(None, <<>>)
    ELSE RunHmmBody(emotion_seq)

(* ------------------------------- calls --------------------------------- *)

\* every sequence over S of length lo..hi
SeqsOf(S, lo, hi) == UNION {[1..k -> S] : k \in lo..hi}

Pads == SeqsOf(Whitespace, 0, MaxPad)

Capitalize(s) == [k \in 1..Len(s) |-> IF k = 1 THEN UpperChar(s[k]) ELSE LowerChar(s[k])]
Alternate(s) == [k \in 1..Len(s) |-> IF k % 2 = 0 THEN UpperChar(s[k]) ELSE LowerChar(s[k])]
CaseForms(s) == {s, Upper(s), Capitalize(s), Alternate(s)}

Canonical == {EMOTIONS[k] : k \in 1..Len(EMOTIONS)}

\* the canonical symbols and the keys of the default alias table
Keys == Canonical \cup {it[1] : it \in AliasItems}

KeyLabels == {StrV(l \o f \o r) : l \in Pads, r \in Pads,
                                   f \in UNION {CaseForms(k) : k \in Keys}}

OtherLabels ==
    { None, StrV(<<>>), StrV(<<" ">>), StrV(<<"s","a","d">>), StrV(<<"x">>),
      StrV(<<"X">>), StrV(<<"n","e","u","t","r","a","l","s">>),
      StrV(<<"n"," ","e">>), IntV(7), IntV(10) }

Pred4Vals == { Absent, None, StrV(<<"F">>), StrV(<<"z","z">>),
               DictV([pred4 |-> StrV(<<"E">>), pred8 |-> Absent,
                      surprise_to |-> Absent, probs4 |-> Absent]) }
Pred8Vals == { Absent, None, StrV(SURPRISE), StrV(<<" ">> \o SURPRISE \o <<"\t">>),
               StrV(<<"H_seul","H_peum">>), StrV(<<"z","z">>), IntV(7) }
SurpriseToVals == { Absent, None, StrV(<<"A">>), StrV(<<"z","z">>) }
Probs4Vals == { Absent, None,
                ListV(<<IntV(10), IntV(70), IntV(15), IntV(5)>>),
                ListV(<<IntV(10), IntV(15), IntV(70), IntV(5)>>),
                ListV(<<IntV(40), IntV(10), IntV(10), IntV(40)>>),
                ListV(<<IntV(10), IntV(70), IntV(20)>>),
                ListV(<<IntV(10), StrV(<<"9","0">>), IntV(15), IntV(5)>>),
                ListV(<<IntV(10), StrV(<<"x">>), IntV(15), IntV(5)>>) }

DictLabels ==
    {DictV([pred4 |-> a, pred8 |-> b, surprise_to |-> c, probs4 |-> d]) :
        a \in Pred4Vals, b \in Pred8Vals, c \in SurpriseToVals, d \in Probs4Vals}

AliasArg(items) == [t |-> "dict", m |-> DictOf(items)]

\* alias tables a caller may pass
CustomAliases ==
    { AliasArg({}),
      AliasArg({<<<<"x">>, <<"s","a","d">>>>}),
      AliasArg({<<<<"x">>, <<" ","F","E","A","R">>>>}),
      AliasArg({<<<<"X">>, fear>>}),
      AliasArg({<<<<"X">>, <<"s","a","d">>>>}),
      AliasArg({<<<<"x">>, fear>>, <<<<"X">>, <<"s","a","d">>>>}),
      AliasArg({<<fear, <<"s","a","d">>>>}) }

CustomLabels ==
    { StrV(<<"x">>), StrV(<<"X">>), StrV(<<" ","X"," ">>), StrV(fear), StrV(<<"F">>),
      StrV(<<"n">>), StrV(<<"z","z">>), None,
      DictV([pred4 |-> StrV(<<"x">>), pred8 |-> Absent,
             surprise_to |-> Absent, probs4 |-> Absent]),
      DictV([pred4 |-> Absent, pred8 |-> Absent,
             surprise_to |-> Absent, probs4 |-> Absent]) }

NormalizeCalls ==
    {[op |-> "normalize_emotion", label |-> l, aliases |-> None] :
        l \in KeyLabels \cup OtherLabels \cup DictLabels}
    \cup {[op |-> "normalize_emotion", label |-> l, aliases |-> a] :
        l \in CustomLabels, a \in CustomAliases}

\* the labels of the sequences handed to viterbi_decode
ObsLabels == {StrV(e) : e \in Canonical} \cup {StrV(<<"F">>), StrV(<<"s","a","d">>)}

ViterbiCalls ==
    {[op |-> "viterbi_decode", obs_seq |-> q, emotion_aliases |-> None] :
        q \in SeqsOf(ObsLabels, 0, MaxT)}

ForwardBackwardCalls ==
    {[op |-> "_forward_backward_gamma", obs_norm |-> q] :
        q \in SeqsOf(Canonical \cup {<<"s","a","d">>}, 0, MaxT)}

\* the labels of the sequences handed to run_hmm_on_emotions
RunLabels == {StrV(neutral), StrV(excitement), StrV(<<"F">>), StrV(<<"s","a","d">>)}

RunHmmCalls ==
    {[op |-> "run_hmm_on_emotions", emotion_seq |-> q] :
        q \in SeqsOf(RunLabels, 0, MaxT)}

Calls == NormalizeCalls \cup ViterbiCalls \cup ForwardBackwardCalls \cup RunHmmCalls

\* the state after the module was imported, with one of `calls` about to be made
InitWith(calls) ==
    /\ A = normalize_rows(A_RAW).val
    /\ B = B_TABLE
    /\ PI = PI_TABLE
    /\ DEFAULT_EMOTION_ALIASES = DictOf(AliasItems)
    /\ call \in calls
    /\ pc = "call"
    /\ ret = None
    /\ turns = IF "turns" \in DOMAIN call THEN call.turns ELSE <<>>
    /\ preds = <<>>
    /\ threads = <<>>
    /\ SUMMARY_CACHE = <<>>
    /\ db = [rows |-> <<>>, evidence |-> <<>>]
    /\ judged = [calls |-> 0, persisted |-> {}]

Init == InitWith(Calls)

NormalizeEmotion ==
    /\ pc = "call"
    /\ call.op = "normalize_emotion"
    /\ ret' = normalize_emotion(call.label, call.aliases, DEFAULT_EMOTION_ALIASES)
    /\ pc' = "done"
    /\ UNCHANGED <<A, B, PI, DEFAULT_EMOTION_ALIASES, call, turns, preds, threads, SUMMARY_CACHE, db, judged>>

ViterbiDecode ==
    /\ pc = "call"
    /\ call.op = "viterbi_decode"
    /\ ret' = viterbi_decode(call.obs_seq, call.emotion_aliases)
    /\ pc' = "done"
    /\ UNCHANGED <<A, B, PI, DEFAULT_EMOTION_ALIASES, call, turns, preds, threads, SUMMARY_CACHE, db, judged>>

ForwardBackwardGamma ==
    /\ pc = "call"
    /\ call.op = "_forward_backward_gamma"
    /\ ret' = forward_backward_gamma(call.obs_norm)
    /\ pc' = "done"
    /\ UNCHANGED <<A, B, PI, DEFAULT_EMOTION_ALIASES, call, turns, preds, threads, SUMMARY_CACHE, db, judged>>

RunHmmOnEmotions ==
    /\ pc = "call"
    /\ call.op = "run_hmm_on_emotions"
    /\ ret' = run_hmm_on_emotions(call.emotion_seq)
    /\ pc' = "done"
    /\ UNCHANGED <<A, B, PI, DEFAULT_EMOTION_ALIASES, call, turns, preds, threads, SUMMARY_CACHE, db, judged>>

Next ==
    \/ NormalizeEmotion
    \/ ViterbiDecode
    \/ ForwardBackwardGamma
    \/ RunHmmOnEmotions

\* calls of any of the four operations
Spec == Init /\ [][Next]_vars

\* calls of one operation only
InitNormalize == InitWith(NormalizeCalls)
SpecNormalize == InitNormalize /\ [][NormalizeEmotion]_vars

InitViterbi == InitWith(ViterbiCalls)
SpecViterbi == InitViterbi /\ [][ViterbiDecode]_vars

InitForwardBackward == InitWith(ForwardBackwardCalls)
SpecForwardBackward == InitForwardBackward /\ [][ForwardBackwardGamma]_vars

(* ============================== claims ================================= *)

Done(op) == pc = "done" /\ call.op = op

\* every label of the sequence is a canonical symbol, spelled exactly
AllCanonical(obs_seq) ==
    \A k \in 1..Len(obs_seq) : obs_seq[k].t = "str" /\ obs_seq[k].s \in Canonical

\* the entry x as an integer over `scale`
Scaled(x, scale) == x.n * (scale \div x.d)

RECURSIVE JointFrom(_, _, _)
\* the factors A[s(t-1)][s(t)] * B[s(t)][o(t)] of the steps k..T of a path
JointFrom(path, obs, k) ==
    IF k > Len(path) THEN 1
    ELSE Scaled(A[path[k - 1]][path[k]], AScale)
         * Scaled(B[path[k]][EMO_TO_IDX[obs[k]]], BScale)
         * JointFrom(path, obs, k + 1)

\* pi[s0]*B[s0][o0]*PROD_t A[s(t-1)][s(t)]*B[s(t)][o(t)], as an integer over the
\* scale PIScale * BScale^T * AScale^(T-1) shared by all paths of length T
Joint(path, obs) ==
    Scaled(PI[path[1]], PIScale) * Scaled(B[path[1]][EMO_TO_IDX[obs[1]]], BScale)
    * JointFrom(path, obs, 2)

\* every state path of length T, as state indices
Paths(T) == [1..T -> 0..(N - 1)]

PathIdx(states) == [k \in 1..Len(states) |-> STATE_TO_IDX[states[k]]]

\* C1: on every non-empty sequence of canonical observations the path returned
\* by viterbi_decode has a joint probability at least that of every state path
\* of the same length, and logp is the log of that largest joint probability.
C1_ViterbiPathIsMostLikely ==
    (Done("viterbi_decode") /\ Len(call.obs_seq) >= 1 /\ AllCanonical(call.obs_seq)) =>
        /\ ret.ok
        /\ LET obs == ret.val.obs
               best == Joint(PathIdx(ret.val.states), obs)
           IN  /\ \A p \in Paths(Len(obs)) : Joint(p, obs) <= best
               /\ ret.val.logp = best

\* a three-step decode whose best path leaves V1 and visits both other states
C1_Witness ==
    /\ Done("viterbi_decode")
    /\ Len(call.obs_seq) = 3
    /\ AllCanonical(call.obs_seq)
    /\ ret.ok
    /\ ret.val.states = <<V1, V2, V3>>

\* C2: for every input of length T >= 1 whose labels all normalise, the result of
\* viterbi_decode holds exactly T states, each V1, V2 or V3, and exactly T
\* normalised observations.
C2_PathLengthIsT ==
    (/\ Done("viterbi_decode")
     /\ Len(call.obs_seq) >= 1
     /\ \A k \in 1..Len(call.obs_seq) :
            normalize_emotion(call.obs_seq[k], call.emotion_aliases,
                              DEFAULT_EMOTION_ALIASES).ok) =>
        /\ ret.ok
        /\ Len(ret.val.states) = Len(call.obs_seq)
        /\ Len(ret.val.obs) = Len(call.obs_seq)
        /\ \A k \in 1..Len(ret.val.states) : ret.val.states[k] \in {V1, V2, V3}
        /\ \A k \in 1..Len(ret.val.obs) : ret.val.obs[k] \in Canonical

\* a decode of three labels, one of them the alias code F
C2_Witness ==
    /\ Done("viterbi_decode")
    /\ Len(call.obs_seq) = 3
    /\ call.obs_seq[2] = StrV(<<"F">>)
    /\ ret.ok
    /\ Len(ret.val.states) = 3
    /\ ret.val.obs[2] = fear

\* C3: on every non-empty sequence of canonical observations the returned path
\* starts in V1, and [neutral] decodes to exactly [V1] with a log-probability
\* that is not -inf.
C3_PathStartsInV1 ==
    (Done("viterbi_decode") /\ Len(call.obs_seq) >= 1 /\ AllCanonical(call.obs_seq)) =>
        /\ ret.ok
        /\ ret.val.states[1] = V1
        /\ call.obs_seq = <<StrV(neutral)>> =>
              (ret.val.states = <<V1>> /\ ret.val.logp # NegInf)

\* the decode of [neutral]
C3_Witness ==
    /\ Done("viterbi_decode")
    /\ call.obs_seq = <<StrV(neutral)>>
    /\ ret.ok
    /\ ret.val.states = <<V1>>
    /\ ret.val.logp > NegInf

\* C4: in every result of viterbi_decode state_counts[s] is the number of
\* positions of the path equal to s (so the counts sum to T), v3_ratio is
\* state_counts[V3] / T and final_state is the last element of the path.
C4_SummaryMatchesPath ==
    (Done("viterbi_decode") /\ ret.ok) =>
        LET T == Len(ret.val.states)
            occ(st) == Cardinality({k \in 1..T : ret.val.states[k] = st})
        IN  /\ T = Len(call.obs_seq)
            /\ DOMAIN ret.val.state_counts = {V1, V2, V3}
            /\ \A st \in {V1, V2, V3} : ret.val.state_counts[st] = occ(st)
            /\ ret.val.state_counts[V1] + ret.val.state_counts[V2]
                   + ret.val.state_counts[V3] = T
            /\ ret.val.v3_ratio.n * T = occ(V3) * ret.val.v3_ratio.d
            /\ ret.val.v3_ratio.d > 0
            /\ ret.val.final_state = ret.val.states[T]

\* a three-step result with V3 on the path but not everywhere
C4_Witness ==
    /\ Done("viterbi_decode")
    /\ ret.ok
    /\ Len(ret.val.states) = 3
    /\ ret.val.state_counts[V3] = 1
    /\ ret.val.state_counts[V1] = 1
    /\ ret.val.v3_ratio = [n |-> 1, d |-> 3]
    /\ ret.val.final_state = V3

\* C5: nothing is decoded from an empty sequence: viterbi_decode raises before
\* normalising a label or filling a delta row, and run_hmm_on_emotions returns
\* None without calling viterbi_decode or _forward_backward_gamma.
C5_EmptySequenceNotDecoded ==
    /\ (Done("viterbi_decode") /\ call.obs_seq = <<>>) =>
          (~ret.ok /\ ret.exc = "ValueError" /\ ret.steps = <<>>)
    /\ (Done("run_hmm_on_emotions") /\ call.emotion_seq = <<>>) =>
          (ret.ok /\ ret.val = None /\ ret.steps = <<>>)
    /\ (Done("viterbi_decode") /\ ret.ok) => Len(call.obs_seq) >= 1
    /\ (Done("run_hmm_on_emotions") /\ ret.ok /\ Len(ret.steps) > 0) =>
          Len(call.emotion_seq) >= 1

\* run_hmm_on_emotions returned None for the empty sequence
C5_Witness ==
    /\ Done("run_hmm_on_emotions")
    /\ call.emotion_seq = <<>>
    /\ ret.ok
    /\ ret.steps = <<>>

RECURSIVE Pow(_, _)
Pow(b, e) == IF e = 0 THEN 1 ELSE b * Pow(b, e - 1)

\* the m-th state path of length T, m in 0..N^T - 1
PathNo(m, T) == [k \in 1..T |-> (m \div Pow(N, k - 1)) % N]

\* the joint probability of every state path with the observations, by number
JointTable(obs) ==
    [m \in 0..(Pow(N, Len(obs)) - 1) |-> Joint(PathNo(m, Len(obs)), obs)]

RECURSIVE SumTo(_, _)
\* f[0] + ... + f[m]
SumTo(f, m) == IF m < 0 THEN 0 ELSE f[m] + SumTo(f, m - 1)

\* the summed joint probability of all N^T state paths, over the paths' scale
SumJoint(joint) == SumTo(joint, Cardinality(DOMAIN joint) - 1)

\* the same sum over the paths that are in state j at position t of T
SumJointAt(joint, T, t, j) ==
    SumTo([m \in DOMAIN joint |-> IF PathNo(m, T)[t] = j THEN joint[m] ELSE 0],
          Cardinality(DOMAIN joint) - 1)

CanonicalRun(obs_norm) ==
    Len(obs_norm) >= 1 /\ \A k \in 1..Len(obs_norm) : obs_norm[k] \in Canonical

\* C6: on every non-empty sequence of canonical observations
\* _forward_backward_gamma returns a T x 3 table whose rows are non-negative and
\* sum to 1; the unnormalised forward mass is positive at every timestep and no
\* row and no scaling constant comes from the fallback.
C6_PosteriorRowsSumToOne ==
    (Done("_forward_backward_gamma") /\ CanonicalRun(call.obs_norm)) =>
        /\ ret.ok
        /\ Len(ret.val.gamma) = Len(call.obs_norm)
        /\ \A t \in 1..Len(ret.val.gamma) :
              /\ DOMAIN ret.val.gamma[t] = 0..(N - 1)
              /\ \A j \in 0..(N - 1) :
                    ret.val.gamma[t][j].n >= 0 /\ ret.val.gamma[t][j].d > 0
              /\ RSum(ret.val.gamma[t]) = ROne
        /\ Len(ret.mass) = Len(call.obs_norm)
        /\ \A t \in 1..Len(ret.mass) : ret.mass[t].n > 0
        /\ ret.uniform = {}
        /\ ~ret.val.loglik.neg_inf

\* a three-step run whose last row gives weight to every state
C6_Witness ==
    /\ Done("_forward_backward_gamma")
    /\ Len(call.obs_norm) = 3
    /\ ret.ok
    /\ \A j \in 0..(N - 1) : ret.val.gamma[3][j].n > 0
    /\ ret.uniform = {}

RECURSIVE LikOverScale(_, _, _)
\* the product of the factors 1..k of the likelihood, times the scale
\* BScale^k * AScale^(k-1) of the joint probabilities of k steps
LikOverScale(factors, k, acc) ==
    IF k > Len(factors) THEN acc
    ELSE LikOverScale(factors, k + 1,
            RMul(RMul(RMul(acc, factors[k]), [n |-> BScale, d |-> 1]),
                 [n |-> IF k > 1 THEN AScale ELSE PIScale, d |-> 1]))

\* C7: on every non-empty sequence of canonical observations the likelihood
\* rebuilt from the scaling constants, PROD_t 1/c[t], is the sum over all 3^T
\* state paths of the joint probability of path and observations; every factor
\* lies in (0, 1], so the log-likelihood is finite and <= 0.
C7_LikelihoodIsSumOverPaths ==
    (Done("_forward_backward_gamma") /\ CanonicalRun(call.obs_norm)) =>
        /\ ret.ok
        /\ ~ret.val.loglik.neg_inf
        /\ Len(ret.val.loglik.factors) = Len(call.obs_norm)
        /\ \A t \in 1..Len(ret.c) : ret.c[t].n > 0
        /\ \A t \in 1..Len(ret.val.loglik.factors) :
              /\ RMul(ret.val.loglik.factors[t], ret.c[t]) = ROne
              /\ ret.val.loglik.factors[t].n > 0
              /\ ret.val.loglik.factors[t].n <= ret.val.loglik.factors[t].d
        /\ LikOverScale(ret.val.loglik.factors, 1, ROne)
               = [n |-> SumJoint(JointTable(call.obs_norm)), d |-> 1]

\* a three-step run whose third observation is less likely than certain
C7_Witness ==
    /\ Done("_forward_backward_gamma")
    /\ Len(call.obs_norm) = 3
    /\ ret.ok
    /\ Len(ret.val.loglik.factors) = 3
    /\ ret.val.loglik.factors[3].n < ret.val.loglik.factors[3].d

\* C8: on every non-empty sequence of canonical observations gamma[t][j] is the
\* posterior of state j at t: the summed joint probability of the state paths
\* that are in j at t, divided by the summed joint probability of all paths.
C8_GammaIsPosterior ==
    (Done("_forward_backward_gamma") /\ CanonicalRun(call.obs_norm)) =>
        /\ ret.ok
        /\ Len(ret.val.gamma) = Len(call.obs_norm)
        /\ LET T == Len(call.obs_norm)
               joint == JointTable(call.obs_norm)
               total == SumJoint(joint)
           IN  \A t \in 1..T : \A j \in 0..(N - 1) :
                  ret.val.gamma[t][j] = Rat(SumJointAt(joint, T, t, j), total)

\* a three-step run: the first posterior is V1 for sure, the second is spread
C8_Witness ==
    /\ Done("_forward_backward_gamma")
    /\ call.obs_norm = <<fear, neutral, excitement>>
    /\ ret.ok
    /\ ret.val.gamma[1][0] = ROne
    /\ ret.val.gamma[2][1].n > 0
    /\ ret.val.gamma[2][2].n > 0

\* the canonical symbol the default table assigns to a key
KeyTarget(k) == IF k \in Canonical THEN k ELSE DictOf(AliasItems)[k]

\* C9: a canonical symbol or a key of the default alias table, in any letter
\* case and with any whitespace around it, normalises to the symbol the table
\* assigns (a canonical symbol to itself, n/f/a/e to neutral/fear/anger/
\* excitement); normalising an output of normalize_emotion returns it unchanged.
C9_KeysNormaliseToTheirSymbol ==
    Done("normalize_emotion") =>
        /\ (/\ call.aliases = None
            /\ call.label.t = "str"
            /\ \E k \in Keys : \E f \in CaseForms(k) : Strip(call.label.s) = f) =>
              \E k \in Keys :
                  /\ \E f \in CaseForms(k) : Strip(call.label.s) = f
                  /\ ret = Ok(KeyTarget(k))
        /\ (call.aliases = None /\ call.label \in {StrV(<<c>>) : c \in {"n", "N"}}) =>
              ret = Ok(neutral)
        /\ (call.aliases = None /\ call.label \in {StrV(<<c>>) : c \in {"f", "F"}}) =>
              ret = Ok(fear)
        /\ (call.aliases = None /\ call.label \in {StrV(<<c>>) : c \in {"a", "A"}}) =>
              ret = Ok(anger)
        /\ (call.aliases = None /\ call.label \in {StrV(<<c>>) : c \in {"e", "E"}}) =>
              ret = Ok(excitement)
        /\ ret.ok =>
              normalize_emotion(StrV(ret.val), call.aliases, DEFAULT_EMOTION_ALIASES)
                  = Ok(ret.val)

\* the key angry, in capitals between a blank and a tab
C9_Witness ==
    /\ Done("normalize_emotion")
    /\ call.aliases = None
    /\ call.label = StrV(<<" ", "A", "N", "G", "R", "Y", "\t">>)
    /\ ret = Ok(anger)

\* the alias table a call uses: the default one for None and for an empty dict
TableOf(aliases) ==
    IF aliases.t = "none" \/ DOMAIN aliases.m = {}
    THEN DictOf(AliasItems) ELSE aliases.m

\* a prediction object with no usable key: no pred4, no pred8, no probs4
NoUsableKeys(d) ==
    /\ d["pred4"].t \in {"absent", "none"}
    /\ d["pred8"].t \in {"absent", "none"}
    /\ d["probs4"].t \in {"absent", "none"}

\* C10: normalize_emotion returns one of the four canonical symbols or raises,
\* never another value; it raises for None, for a prediction object with no
\* usable key, for a string that matches no canonical symbol and no alias, and
\* for a string whose alias maps (trimmed, lowercased) outside the four.
C10_CanonicalOrError ==
    Done("normalize_emotion") =>
        /\ ret.ok => ret.val \in {neutral, anger, fear, excitement}
        /\ ~ret.ok => ret.exc = "ValueError"
        /\ call.label = None => ~ret.ok
        /\ (call.label.t = "dict" /\ NoUsableKeys(call.label.d)) => ~ret.ok
        /\ call.label.t = "str" =>
              LET s == Lower(Strip(call.label.s))
                  raw == Strip(call.label.s)
                  table == TableOf(call.aliases)
                  hit == IF s \in DOMAIN table THEN {s}
                         ELSE IF raw \in DOMAIN table THEN {raw} ELSE {}
              IN  /\ (s \notin Canonical /\ hit = {}) => ~ret.ok
                  /\ (/\ s \notin Canonical
                      /\ \E k \in hit : Lower(Strip(table[k])) \notin Canonical) =>
                        ~ret.ok

\* the alias x of a caller's table maps to sad, which is no canonical symbol
C10_Witness ==
    /\ Done("normalize_emotion")
    /\ call.label = StrV(<<"x">>)
    /\ call.aliases = AliasArg({<<<<"x">>, <<"s","a","d">>>>})
    /\ ~ret.ok
    /\ ret.msg = "Alias mapped to invalid emotion"

(* ======== emotion_sequence.py: extract_victim_emotion_sequence ========= *)

\* A turn is a Python dict: a function from the keys it holds to their values.

\* most turns in a turn list handed to extraction
MaxTurns == 3

victim == <<"v","i","c","t","i","m">>
user == <<"u","s","e","r">>
customer == <<"c","u","s","t","o","m","e","r">>
offender == <<"o","f","f","e","n","d","e","r">>

\* line 52
ROLE_KEYS == <<"speaker", "role", "who", "agent">>
\* line 53
VICTIM_ROLES == <<StrV(victim), StrV(user), StrV(customer)>>
\* line 54
EMOTION_KEYS == <<"emotion", "emotion_label", "emotionTag", "emotion_tag">>

\* `s if s else None`
NonEmptyOrNone(s) == IF Len(s) = 0 THEN None ELSE StrV(s)

\* lines 7-45: _extract_emotion_label
extract_emotion_label(emo_val) ==
    IF emo_val.t = "none" THEN None
    ELSE IF emo_val.t = "str" THEN NonEmptyOrNone(Strip(emo_val.s))
    ELSE IF emo_val.t = "dict" THEN
        LET pred4 == DictGet(emo_val.d, "pred4")
            pred8 == DictGet(emo_val.d, "pred8")
            st == DictGet(emo_val.d, "surprise_to")
        IN  IF pred4.t # "none" THEN NonEmptyOrNone(Strip(PyStr(pred4)))
            ELSE IF pred8.t = "str" /\ Strip(pred8.s) = SURPRISE
            THEN IF st.t # "none" THEN NonEmptyOrNone(Strip(PyStr(st)))
                 ELSE StrV(SURPRISE)
            ELSE IF pred8.t # "none" THEN NonEmptyOrNone(Strip(PyStr(pred8)))
            ELSE None
    ELSE NonEmptyOrNone(Strip(PyStr(emo_val)))

RECURSIVE get_first(_, _)
\* lines 70-74: _get_first, the value at the first of `keys` the dict holds
get_first(d, keys) ==
    IF Len(keys) = 0 THEN None
    ELSE IF Head(keys) \in DOMAIN d THEN d[Head(keys)]
    ELSE get_first(d, Tail(keys))

\* line 68: victim_set
VictimSet(victim_roles) ==
    {Lower(Strip(PyStr(victim_roles[k]))) : k \in 1..Len(victim_roles)}

\* lines 80-81: role of turn t
TurnRole(t, role_keys) ==
    LET role_val == get_first(t, role_keys)
    IN  IF role_val.t # "none" THEN Lower(Strip(PyStr(role_val))) ELSE <<>>

\* faulty variant of ExtractAppend: the position among the victim turns is recorded
ExtractAppend_CountsVictims(acc, i, emo_str) ==
    [emotions |-> Append(acc.emotions, emo_str),
     indices |-> Append(acc.indices, Len(acc.indices))]

\* lines 93-94: emotions.append(emo_str); indices.append(i)
ExtractAppend(acc, i, emo_str) ==
    [emotions |-> Append(acc.emotions, emo_str),
     indices |-> Append(acc.indices, i)]

\* lines 80-94: one pass of the loop body, for turn t at index i
ExtractStep(acc, i, t, drop_empty) ==
    IF TurnRole(t, ROLE_KEYS) \notin VictimSet(VICTIM_ROLES) THEN acc
    ELSE LET emo_str == extract_emotion_label(get_first(t, EMOTION_KEYS))
         IN  IF emo_str.t = "none" THEN acc
             ELSE IF drop_empty /\ Len(Strip(PyStr(emo_str))) = 0 THEN acc
             ELSE ExtractAppend(acc, i, emo_str.s)

RECURSIVE ExtractLoop(_, _, _, _)
\* lines 79-94: for i, t in enumerate(turns), from index i on
ExtractLoop(acc, i, ts, drop_empty) ==
    IF i >= Len(ts) THEN acc
    ELSE ExtractLoop(ExtractStep(acc, i, ts[i + 1], drop_empty), i + 1,
                     ts, drop_empty)

\* lines 48-96, with the default role_keys, victim_roles and emotion_keys
extract_victim_emotion_sequence(ts, drop_empty) ==
    Ok(ExtractLoop([emotions |-> <<>>, indices |-> <<>>], 0, ts, drop_empty))

\* an emotion prediction dict holding the given fields
EmotionDict(pred4, pred8, surprise_to) ==
    DictV([pred4 |-> pred4, pred8 |-> pred8, surprise_to |-> surprise_to,
           probs4 |-> Absent])

\* turns a caller may hand to extraction
ExtractTurns ==
    { [role |-> StrV(offender), emotion |-> StrV(<<"A">>)],
      [role |-> StrV(victim), emotion |-> EmotionDict(StrV(<<"F">>), Absent, Absent)],
      [role |-> StrV(victim), emotion |-> EmotionDict(StrV(<<"N">>), Absent, Absent)],
      [speaker |-> StrV(<<" ","V","i","c","t","i","m">>),
       emotion_label |-> StrV(<<" ","f","e","a","r"," ">>)],
      [role |-> StrV(user),
       emotion |-> EmotionDict(Absent, StrV(SURPRISE), StrV(<<"A">>))],
      [role |-> StrV(victim), text |-> StrV(<<"x">>)],
      [speaker |-> None, role |-> StrV(victim), emotion |-> StrV(<<"F">>)],
      [role |-> StrV(victim), emotion |-> StrV(<<" ">>)],
      [role |-> StrV(customer), emotion |-> None, emotion_label |-> StrV(<<"A">>)] }

\* drop_empty = True is the default; drop_empty = False is tried on the short lists
ExtractCalls ==
    {[op |-> "extract_victim_emotion_sequence", turns |-> q, drop_empty |-> TRUE] :
        q \in SeqsOf(ExtractTurns, 0, MaxTurns)}
    \cup
    {[op |-> "extract_victim_emotion_sequence", turns |-> q, drop_empty |-> FALSE] :
        q \in SeqsOf(ExtractTurns, 0, 2)}

ExtractVictimEmotionSequence ==
    /\ pc = "call"
    /\ call.op = "extract_victim_emotion_sequence"
    /\ ret' = extract_victim_emotion_sequence(call.turns, call.drop_empty)
    /\ pc' = "done"
    /\ UNCHANGED <<A, B, PI, DEFAULT_EMOTION_ALIASES, call, turns, preds, threads, SUMMARY_CACHE, db, judged>>

InitExtract == InitWith(ExtractCalls)
SpecExtract == InitExtract /\ [][ExtractVictimEmotionSequence]_vars

(* ------------------------------- C11 ----------------------------------- *)

\* the turn is spoken by the victim: the first role key it holds names a victim role
IsVictimTurn(t) ==
    \E k \in 1..Len(ROLE_KEYS) :
        /\ ROLE_KEYS[k] \in DOMAIN t
        /\ \A m \in 1..(k - 1) : ROLE_KEYS[m] \notin DOMAIN t
        /\ t[ROLE_KEYS[k]].t # "none"
        /\ Lower(Strip(PyStr(t[ROLE_KEYS[k]]))) \in {victim, user, customer}

\* the label the turn carries, under the first emotion key it holds
LabelOfTurn(t) == extract_emotion_label(get_first(t, EMOTION_KEYS))

\* C11: extract_victim_emotion_sequence returns two lists of equal length; the
\* indices are strictly increasing, each is the index of a victim-role turn of
\* the input, and the k-th label is the one extracted from the turn at the k-th
\* index; without a victim-role turn both lists are empty.
C11_ExtractionIsAlignedAndOrdered ==
    Done("extract_victim_emotion_sequence") =>
        /\ ret.ok
        /\ LET emotions == ret.val.emotions
               indices == ret.val.indices
               input == call.turns
           IN  /\ Len(emotions) = Len(indices)
               /\ \A k \in 1..(Len(indices) - 1) : indices[k] < indices[k + 1]
               /\ \A k \in 1..Len(indices) :
                    /\ indices[k] \in 0..(Len(input) - 1)
                    /\ IsVictimTurn(input[indices[k] + 1])
                    /\ LabelOfTurn(input[indices[k] + 1]) = StrV(emotions[k])
               /\ (~\E i \in 1..Len(input) : IsVictimTurn(input[i])) =>
                    (emotions = <<>> /\ indices = <<>>)

\* two victim turns were extracted from behind an offender turn that carries an
\* emotion of its own
C11_Witness ==
    /\ Done("extract_victim_emotion_sequence")
    /\ Len(call.turns) = 3
    /\ ~IsVictimTurn(call.turns[1])
    /\ "emotion" \in DOMAIN call.turns[1]
    /\ ret.val.indices = <<1, 2>>
    /\ ret.val.emotions = <<<<"F">>, <<"A">>>>

(* ===== emoti_shing_hmm.py: attach_vulnerability_states_to_turns ========= *)

\* most indices, and most states, handed to annotation
MaxAttach == 2

\* d[key] = value on a dict
DictSet(d, key, value) ==
    [k \in DOMAIN d \cup {key} |-> IF k = key THEN value ELSE d[k]]

\* lines 300-301: if 0 <= idx < len(turns): turns[idx][out_key] = st
AttachOne(ts, idx, st, out_key) ==
    IF 0 <= idx /\ idx < Len(ts)
    THEN [ts EXCEPT ![idx + 1] = DictSet(@, out_key, StrV(st))]
    ELSE ts

RECURSIVE AttachLoop(_, _, _, _, _)
\* lines 297-301: for idx, st in zip(...), from the k-th pair on; a raise leaves
\* the turns as the earlier pairs made them
AttachLoop(ts, k, victim_turn_indices, viterbi_states, out_key) ==
    IF k > Len(victim_turn_indices) \/ k > Len(viterbi_states)
    THEN [ret |-> Ok(None), turns |-> ts]
    ELSE IF viterbi_states[k] \notin DOMAIN STATE_TO_IDX
    THEN [ret |-> Raise("ValueError", "Invalid HMM state"), turns |-> ts]
    ELSE AttachLoop(AttachOne(ts, victim_turn_indices[k], viterbi_states[k], out_key),
                    k + 1, victim_turn_indices, viterbi_states, out_key)

\* faulty variant of attach_vulnerability_states_to_turns: the lengths are not
\* compared and zip() pairs as many as both lists hold
attach_without_length_check(ts, victim_turn_indices, viterbi_states, out_key) ==
    AttachLoop(ts, 1, victim_turn_indices, viterbi_states, out_key)

\* lines 283-301
attach_vulnerability_states_to_turns(ts, victim_turn_indices, viterbi_states, out_key) ==
    IF Len(victim_turn_indices) # Len(viterbi_states)
    THEN [ret |-> Raise("ValueError",
                        "victim_turn_indices and viterbi_states length mismatch."),
          turns |-> ts]
    ELSE AttachLoop(ts, 1, victim_turn_indices, viterbi_states, out_key)

OffenderTurn == [role |-> StrV(offender), text |-> StrV(<<"x">>)]
VictimTurn == [role |-> StrV(victim),
               emotion |-> EmotionDict(StrV(<<"F">>), Absent, Absent)]
\* a victim turn annotated by an earlier call
AnnotatedTurn == [role |-> StrV(victim), vulnerability_state |-> StrV(V1)]

AttachCalls ==
    {[op |-> "attach_vulnerability_states_to_turns", turns |-> ts,
      victim_turn_indices |-> ix, viterbi_states |-> st, out_key |-> key] :
        ts \in { <<>>, <<OffenderTurn, VictimTurn>>,
                 <<AnnotatedTurn, OffenderTurn, VictimTurn>> },
        ix \in SeqsOf((0 - 1)..MaxAttach, 0, MaxAttach),
        st \in SeqsOf({V1, V3, Lower(V1)}, 0, MaxAttach),
        key \in {"vulnerability_state", "state"}}

AttachVulnerabilityStatesToTurns ==
    /\ pc = "call"
    /\ call.op = "attach_vulnerability_states_to_turns"
    /\ LET r == attach_vulnerability_states_to_turns(
                    turns, call.victim_turn_indices, call.viterbi_states, call.out_key)
       IN  /\ ret' = r.ret
           /\ turns' = r.turns
    /\ pc' = "done"
    /\ UNCHANGED <<A, B, PI, DEFAULT_EMOTION_ALIASES, call, preds, threads, SUMMARY_CACHE, db, judged>>

InitAttach == InitWith(AttachCalls)
SpecAttach == InitAttach /\ [][AttachVulnerabilityStatesToTurns]_vars

(* ------------------------------- C13 ----------------------------------- *)

\* C13: after a successful attach_vulnerability_states_to_turns call with n
\* indices and n valid states, turns[indices[k]][out_key] = states[k] for every
\* k, every turn at another index is unchanged, every other field of the
\* annotated turns is unchanged, and the list has the same length and order.
C13_ExactlyIndexedTurnsAnnotated ==
    (Done("attach_vulnerability_states_to_turns") /\ ret.ok) =>
        LET indices == call.victim_turn_indices
            states == call.viterbi_states
            key == call.out_key
            at == {indices[k] + 1 : k \in 1..Len(indices)}
        IN  /\ Len(turns) = Len(call.turns)
            /\ \A k \in 1..Len(indices) :
                    /\ indices[k] + 1 \in 1..Len(turns)
                    /\ key \in DOMAIN turns[indices[k] + 1]
                    /\ turns[indices[k] + 1][key] = StrV(states[k])
            /\ \A i \in 1..Len(turns) :
                    IF i \in at
                    THEN /\ DOMAIN turns[i] = DOMAIN call.turns[i] \cup {key}
                         /\ \A f \in DOMAIN call.turns[i] \ {key} :
                                turns[i][f] = call.turns[i][f]
                    ELSE turns[i] = call.turns[i]

(* ============ label_turns.py: label_emotions_on_turns ================== *)

\* d.get(key) on a dict held as a function from its keys
Get(d, key) == IF key \in DOMAIN d THEN d[key] ELSE None

\* bool(v)
Truthy(v) ==
    CASE v.t = "none" -> FALSE
      [] v.t = "str" -> Len(v.s) > 0
      [] v.t = "int" -> v.i # 0
      [] v.t = "bool" -> v.b
      [] v.t = "list" -> Len(v.l) > 0
      [] v.t = "dict" -> \E k \in DOMAIN v.d : v.d[k] # Absent

RECURSIVE FirstTruthy(_, _)
\* a or b or ... or last
FirstTruthy(vals, last) ==
    IF Len(vals) = 0 THEN last
    ELSE IF Truthy(Head(vals)) THEN Head(vals)
    ELSE FirstTruthy(Tail(vals), last)

\* str(v); the repr of a dict is kept only as a text in braces
Str(v) == IF v.t = "dict" THEN <<"{", ":", "}">> ELSE PyStr(v)

\* line 15: _norm_role
norm_role(turn) ==
    Lower(Strip(Str(FirstTruthy(
        <<Get(turn, "role"), Get(turn, "speaker"), Get(turn, "actor")>>, StrV(<<>>)))))

\* lines 18-20: _is_victim
is_victim(turn) ==
    norm_role(turn) \in {victim, <<"H_pi","H_hae","H_ja">>, user,
                         <<"H_sa","H_yong","H_ja">>}

\* line 66: _get_text
get_text(turn) ==
    Strip(Str(FirstTruthy(<<Get(turn, "text"), Get(turn, "content")>>, StrV(<<>>))))

\* lines 68-76: _get_dialogue_for_emotion; `dlg or raw` is the dialogue of a JSON
\* text and else the text itself, and is empty only when the text is
get_dialogue_for_emotion(turn) == get_text(turn)

RECURSIVE SelectVictims(_, _)
\* lines 167-206: victim_indices, the victim turns with a text, from index i on
SelectVictims(out_turns, i) ==
    IF i >= Len(out_turns) THEN <<>>
    ELSE IF ~is_victim(out_turns[i + 1]) THEN SelectVictims(out_turns, i + 1)
    ELSE IF Len(get_dialogue_for_emotion(out_turns[i + 1])) = 0
    THEN SelectVictims(out_turns, i + 1)
    ELSE <<i>> \o SelectVictims(out_turns, i + 1)

\* lines 226-234: emotion_obj
EmotionObj(pred) ==
    DictV([pred4 |-> pred["pred4"], probs4 |-> pred["probs4"], pred8 |-> pred["pred8"],
           probs8 |-> Get(pred, "probs8"), surprise_to |-> Get(pred, "surprise_to"),
           cue_scores |-> Get(pred, "cue_scores"), p_surprise |-> Get(pred, "p_surprise")])

\* faulty variant of InjectOne: the emotion goes on the turn before the victim turn
InjectOne_PreviousTurn(acc, idx, pred) ==
    [out_turns |-> [acc.out_turns EXCEPT
                        ![IF idx = 0 THEN 1 ELSE idx] = DictSet(@, "emotion", EmotionObj(pred))],
     victim_emotion_seq |-> Append(acc.victim_emotion_seq, pred["pred4"]),
     labeled_victim_indices |-> Append(acc.labeled_victim_indices, idx)]

\* lines 235-237
InjectOne(acc, idx, pred) ==
    [out_turns |-> [acc.out_turns EXCEPT ![idx + 1] = DictSet(@, "emotion", EmotionObj(pred))],
     victim_emotion_seq |-> Append(acc.victim_emotion_seq, pred["pred4"]),
     labeled_victim_indices |-> Append(acc.labeled_victim_indices, idx)]

RECURSIVE Inject(_, _, _, _)
\* lines 222-237: for idx, pred in zip(victim_indices, preds), from the k-th pair
\* on; a missing key is a KeyError
Inject(acc, k, victim_indices, ps) ==
    IF k > Len(victim_indices) \/ k > Len(ps) THEN Ok(acc)
    ELSE IF Truthy(Get(ps[k], "_skip")) THEN Inject(acc, k + 1, victim_indices, ps)
    ELSE IF ~({"pred4", "probs4", "pred8"} \subseteq DOMAIN ps[k])
    THEN Raise("KeyError", "pred")
    ELSE Inject(InjectOne(acc, victim_indices[k], ps[k]), k + 1, victim_indices, ps)

\* lines 134-139: _try_run_hmm, None when the run raises
try_run_hmm(emotion_seq) ==
    Only({IF r.ok THEN r.val ELSE None : r \in {run_hmm_on_emotions(emotion_seq)}})

\* faulty variant of AttachPerTurn: every labelled turn gets the first row and state
AttachPerTurn_FirstRow(out_turns, labeled_victim_indices, hmm_result) ==
    [i \in 1..Len(out_turns) |->
        IF \E t_i \in 1..Len(labeled_victim_indices) : labeled_victim_indices[t_i] = i - 1
        THEN DictSet(out_turns[i], "hmm",
                     DictV([state_names |-> hmm_result.state_names,
                            posterior |-> hmm_result.gamma[1],
                            viterbi |-> hmm_result.path[1]]))
        ELSE out_turns[i]]

\* lines 251-256: the hmm field of every labelled victim turn
AttachPerTurn(out_turns, labeled_victim_indices, hmm_result) ==
    [i \in 1..Len(out_turns) |->
        IF \E t_i \in 1..Len(labeled_victim_indices) : labeled_victim_indices[t_i] = i - 1
        THEN LET t_i == CHOOSE m \in 1..Len(labeled_victim_indices) :
                            /\ labeled_victim_indices[m] = i - 1
                            /\ \A n \in (m + 1)..Len(labeled_victim_indices) :
                                    labeled_victim_indices[n] # i - 1
             IN  DictSet(out_turns[i], "hmm",
                         DictV([state_names |-> hmm_result.state_names,
                                posterior |-> hmm_result.gamma[t_i],
                                viterbi |-> IF t_i <= Len(hmm_result.path)
                                            THEN hmm_result.path[t_i] ELSE None]))
        ELSE out_turns[i]]

\* lines 259-267: hmm_summary on the last labelled victim turn
AttachSummary(out_turns, labeled_victim_indices, hmm_result) ==
    LET last_victim_turn_idx == labeled_victim_indices[Len(labeled_victim_indices)]
    IN  [out_turns EXCEPT ![last_victim_turn_idx + 1] =
            DictSet(@, "hmm_summary",
                    DictV([state_names |-> hmm_result.state_names,
                           final_state |-> hmm_result.final_state,
                           final_probs |-> hmm_result.final_probs,
                           path |-> hmm_result.path,
                           meta |-> [meta |-> hmm_result.meta]]))]

\* lines 240-267: step 4, the HMM run and its fields
AttachHmm(acc, run_hmm, hmm_attach) ==
    IF ~run_hmm \/ Len(acc.victim_emotion_seq) = 0 THEN acc.out_turns
    ELSE Only({
        IF hmm_result = None THEN acc.out_turns
        ELSE AttachSummary(
                IF hmm_attach = "per_victim_turn"
                   /\ Len(hmm_result.gamma) = Len(acc.labeled_victim_indices)
                THEN AttachPerTurn(acc.out_turns, acc.labeled_victim_indices, hmm_result)
                ELSE acc.out_turns,
                acc.labeled_victim_indices, hmm_result) :
        hmm_result \in {try_run_hmm(acc.victim_emotion_seq)}})

\* lines 142-269, given what emotion_service.predict_batch returned for the items;
\* pair_mode, batch_size and max_length only shape the request to the classifier
label_emotions_on_turns(ts, ps, run_hmm, hmm_attach) ==
    LET out_turns == ts
        victim_indices == SelectVictims(out_turns, 0)
    IN  IF Len(victim_indices) = 0 THEN Ok(out_turns)
        ELSE Only({
            IF ~inj.ok THEN inj ELSE Ok(AttachHmm(inj.val, run_hmm, hmm_attach)) :
            inj \in {Inject([out_turns |-> out_turns, victim_emotion_seq |-> <<>>,
                             labeled_victim_indices |-> <<>>], 1, victim_indices, ps)}})

\* emotion_service.predict_batch (howru_koelectra): one prediction per item, each
\* with a 4-class label and distribution, an 8-class label that may be None and
\* an optional surprise target; a prediction may also be marked _skip
Predictions ==
    { [pred4 |-> StrV(<<"F">>), pred8 |-> None,
       probs4 |-> ListV(<<IntV(10), IntV(70), IntV(15), IntV(5)>>)],
      [pred4 |-> StrV(<<"N">>), pred8 |-> StrV(SURPRISE), surprise_to |-> StrV(<<"N">>),
       probs4 |-> ListV(<<IntV(70), IntV(10), IntV(15), IntV(5)>>)],
      \* a label the normaliser does not know: the HMM run fails on it
      [pred4 |-> StrV(<<"z","z">>), pred8 |-> None,
       probs4 |-> ListV(<<IntV(25), IntV(25), IntV(25), IntV(25)>>)],
      [_skip |-> [t |-> "bool", b |-> TRUE]] }

predict_batch(items) == [1..Len(items) -> Predictions]

\* a victim turn with a text
SpeakingVictim == [role |-> StrV(victim), text |-> StrV(<<"h","i">>)]
\* a victim turn named under speaker, its text under content
UserTurn == [role |-> None, speaker |-> StrV(<<" ","U","S","E","R">>),
             content |-> StrV(<<"o","k">>)]

LabelTurns == {OffenderTurn, SpeakingVictim, VictimTurn, UserTurn}

\* the default mode on every list up to MaxTurns of the plainly named turns; every
\* mode on the short lists of all four turn shapes
LabelCalls ==
    {[op |-> "label_emotions_on_turns", turns |-> q, run_hmm |-> TRUE,
      hmm_attach |-> "per_victim_turn"] :
        q \in SeqsOf({OffenderTurn, SpeakingVictim, VictimTurn}, 0, MaxTurns)}
    \cup
    {[op |-> "label_emotions_on_turns", turns |-> q, run_hmm |-> m[1],
      hmm_attach |-> m[2]] :
        q \in SeqsOf(LabelTurns, 0, 2),
        m \in {<<TRUE, "per_victim_turn">>, <<TRUE, "last_victim_turn_only">>,
               <<FALSE, "per_victim_turn">>}}

LabelEmotionsOnTurns ==
    /\ pc = "call"
    /\ call.op = "label_emotions_on_turns"
    /\ \E p \in predict_batch(SelectVictims(turns, 0)) :
        /\ preds' = p
        /\ ret' = label_emotions_on_turns(turns, p, call.run_hmm, call.hmm_attach)
    /\ pc' = "done"
    /\ UNCHANGED <<A, B, PI, DEFAULT_EMOTION_ALIASES, call, turns, threads, SUMMARY_CACHE, db, judged>>

(* ============== tools_emotion.py: label_victim_emotions ================ *)

\* lines 77-92: the turn's own fields copied into its text dict, then its role
CopyIntoText(t, td, role) ==
    LET keys == IF role = offender THEN {"proc_code", "ppse_labels", "utterance"}
                ELSE IF role = victim THEN {"is_convinced", "thoughts", "dialogue"}
                ELSE {}
        copied == [k \in DOMAIN td \cup (keys \cap DOMAIN t) |->
                      IF k \in DOMAIN td THEN td[k] ELSE t[k]]
    IN  IF "role" \notin DOMAIN copied /\ Len(role) > 0
        THEN DictSet(copied, "role", StrV(role))
        ELSE copied

\* lines 36-94: _normalize_turn_text, for a text that is not itself JSON
normalize_turn_text(t) ==
    LET role == Lower(Strip(FirstTruthy(
                    <<Get(t, "role"), Get(t, "speaker"), Get(t, "actor")>>, StrV(<<>>)).s))
        wrap == IF role = offender THEN "utterance"
                ELSE IF role = victim THEN "dialogue" ELSE "raw"
        t0 == IF Get(t, "text") # None THEN t
              ELSE IF "utterance" \in DOMAIN t
              THEN DictSet(t, "text", DictV([utterance |-> t["utterance"]]))
              ELSE IF "dialogue" \in DOMAIN t
              THEN DictSet(t, "text", DictV([dialogue |-> t["dialogue"]]))
              ELSE t
        text == Get(t0, "text")
        t1 == IF text.t = "str"
              THEN DictSet(t0, "text", DictV([k \in {wrap} |-> StrV(Strip(text.s))]))
              ELSE IF text.t # "dict"
              THEN DictSet(t0, "text", DictV([k \in {wrap} |-> StrV(Str(text))]))
              ELSE t0
    IN  DictSet(t1, "text", DictV(CopyIntoText(t1, t1["text"].d, role)))

\* faulty variant of label_victim_emotions: the switch is not consulted
label_victim_emotions_always(ts, enabled, ps, run_hmm, hmm_attach) ==
    LET cleaned == [i \in 1..Len(ts) |-> normalize_turn_text(ts[i])]
    IN  [turns |-> cleaned,
         ret |-> label_emotions_on_turns(cleaned, ps, run_hmm, hmm_attach)]

\* lines 206-322 for a list of turn dicts: the turns are normalised in place
\* (249-272) and labelled when the tool is enabled (275-285);
\* label_emotions_on_turns returns one turn per turn, so lines 292-293 return its
\* list and the fallbacks of 295-322 are never taken
label_victim_emotions(ts, enabled, ps, run_hmm, hmm_attach) ==
    LET cleaned == [i \in 1..Len(ts) |-> normalize_turn_text(ts[i])]
    IN  [turns |-> cleaned,
         ret |-> IF ~enabled THEN Ok(cleaned)
                 ELSE Only({IF labeled.ok /\ Len(labeled.val) # Len(cleaned)
                            THEN Ok(cleaned) ELSE labeled :
                            labeled \in {label_emotions_on_turns(cleaned, ps, run_hmm,
                                                                 hmm_attach)}})]

ToolCalls ==
    {[op |-> "label_victim_emotions", turns |-> q, enabled |-> e, run_hmm |-> TRUE,
      hmm_attach |-> "per_victim_turn"] :
        q \in SeqsOf(LabelTurns, 0, 2), e \in BOOLEAN}

LabelVictimEmotions ==
    /\ pc = "call"
    /\ call.op = "label_victim_emotions"
    /\ \E p \in IF call.enabled
                THEN predict_batch(SelectVictims(
                        [i \in 1..Len(turns) |-> normalize_turn_text(turns[i])], 0))
                ELSE {<<>>} :
        /\ preds' = p
        /\ LET r == label_victim_emotions(turns, call.enabled, p, call.run_hmm,
                                          call.hmm_attach)
           IN  ret' = r.ret /\ turns' = r.turns
    /\ pc' = "done"
    /\ UNCHANGED <<A, B, PI, DEFAULT_EMOTION_ALIASES, call, threads, SUMMARY_CACHE, db, judged>>

InitLabelling == InitWith(LabelCalls \cup ToolCalls)
SpecLabelling ==
    InitLabelling /\ [][LabelEmotionsOnTurns \/ LabelVictimEmotions]_vars

(* ------------------------------- C15 ----------------------------------- *)

AnnotationFields == {"emotion", "hmm", "hmm_summary"}

\* the victim turns of ts that have a text, as positions 1..Len(ts)
Labelable(ts) == {i \in 1..Len(ts) : is_victim(ts[i]) /\ Len(get_text(ts[i])) > 0}

\* the turn at position i got a prediction and the prediction is not skipped:
\* it is the k-th victim turn with a text and the k-th prediction is not _skip
Predicted(ts, p, i) ==
    /\ i \in Labelable(ts)
    /\ LET k == Cardinality({j \in Labelable(ts) : j <= i})
       IN  k <= Len(p) /\ ~Truthy(Get(p[k], "_skip"))

\* the annotation fields the output turn holds that the input turn did not hold so
Gained(before, after) ==
    {f \in AnnotationFields \cap DOMAIN after :
        f \notin DOMAIN before \/ after[f] # before[f]}

\* out is the list ts, turn by turn, apart from annotation fields, which only
\* predicted turns gained
OnlyPredictedTurnsGain(ts, p, out) ==
    /\ Len(out) = Len(ts)
    /\ \A i \in 1..Len(ts) :
        /\ DOMAIN out[i] \ AnnotationFields = DOMAIN ts[i] \ AnnotationFields
        /\ \A f \in DOMAIN ts[i] \ AnnotationFields : out[i][f] = ts[i][f]
        /\ DOMAIN ts[i] \subseteq DOMAIN out[i]
        /\ Gained(ts[i], out[i]) # {} => Predicted(ts, p, i)

C15_ToolWitness ==
    /\ Done("label_victim_emotions")
    /\ call.turns = <<OffenderTurn, VictimTurn>>
    /\ "emotion" \in Gained(turns[2], ret.val[2])

(* ------------------------------- C12 ----------------------------------- *)

SpecAnnotate ==
    InitWith(AttachCalls \cup LabelCalls)
        /\ [][AttachVulnerabilityStatesToTurns \/ LabelEmotionsOnTurns]_vars

\* the positions of the returned turns that hold a per-turn hmm field
WithHmm(out) == {i \in 1..Len(out) : "hmm" \in DOMAIN out[i]}

C12_LabelWitness ==
    /\ Done("label_emotions_on_turns")
    /\ call.turns = <<SpeakingVictim, OffenderTurn, SpeakingVictim>>
    /\ WithHmm(ret.val) = {1, 3}

(* ------------------------------- C20 ----------------------------------- *)

\* the field is in the prediction object and is not None
Present(d, key) == d[key].t \notin {"absent", "none"}

\* C20: for a prediction object, normalize_emotion returns exactly what it returns
\* for the pred4 field when that field is present and not None, an error of pred4
\* included, whatever the other fields hold; otherwise, when pred8 is the surprise
\* label, it returns what it returns for surprise_to if that is present and not
\* None and else what it returns for pred8, whatever probs4 holds.
C20_Pred4ThenSurprise ==
    (Done("normalize_emotion") /\ call.label.t = "dict") =>
        LET d == call.label.d
            of(v) == normalize_emotion(v, call.aliases, DEFAULT_EMOTION_ALIASES)
        IN  /\ Present(d, "pred4") => ret = of(d["pred4"])
            /\ (/\ ~Present(d, "pred4")
                /\ d["pred8"].t = "str"
                /\ Strip(d["pred8"].s) = SURPRISE) =>
                  ret = IF Present(d, "surprise_to")
                        THEN of(d["surprise_to"]) ELSE of(d["pred8"])

\* no pred4, surprise resolved to anger, while probs4 points at fear
C20_Witness ==
    /\ Done("normalize_emotion")
    /\ call.label = DictV([pred4 |-> None,
                           pred8 |-> StrV(<<" ">> \o SURPRISE \o <<"\t">>),
                           surprise_to |-> StrV(<<"A">>),
                           probs4 |-> ListV(<<IntV(10), IntV(70), IntV(15), IntV(5)>>)])
    /\ ret = Ok(anger)
    /\ map_probs4_to_code(call.label.d["probs4"]) = StrV(<<"F">>)

(* ====== extraction, decoding and annotation of one conversation ======== *)

\* A caller decodes a conversation with the three entry points in turn:
\* extract_victim_emotion_sequence, viterbi_decode (which normalises the labels)
\* and attach_vulnerability_states_to_turns. ret collects what each returned.

VictimNeutral == [role |-> StrV(victim),
                  emotion |-> EmotionDict(StrV(<<"N">>), Absent, Absent)]
\* a victim turn whose label no alias knows
VictimUnknown == [role |-> StrV(victim), emotion |-> StrV(<<"z","z">>)]

ScenarioTurns == <<OffenderTurn, VictimTurn, OffenderTurn, VictimNeutral>>

PipelineCalls ==
    {[op |-> "extract_decode_attach", turns |-> q] :
        q \in SeqsOf({OffenderTurn, VictimTurn, VictimNeutral}, 0, MaxTurns)
              \cup SeqsOf(ExtractTurns \cup {VictimUnknown}, 0, 2)
              \cup {ScenarioTurns}}

\* emotions, indices = extract_victim_emotion_sequence(turns)
ExtractSequence ==
    /\ pc = "call"
    /\ call.op = "extract_decode_attach"
    /\ ret' = extract_victim_emotion_sequence(turns, TRUE)
    /\ pc' = "extracted"
    /\ UNCHANGED <<A, B, PI, DEFAULT_EMOTION_ALIASES, call, turns, preds, threads, SUMMARY_CACHE, db, judged>>

\* vit = viterbi_decode(emotions); a raise ends the caller's work
DecodeSequence ==
    /\ pc = "extracted"
    /\ \E vit \in {viterbi_decode([k \in 1..Len(ret.val.emotions) |->
                                      StrV(ret.val.emotions[k])], None)} :
        /\ ret' = [ok |-> vit.ok,
                   val |-> [emotions |-> ret.val.emotions, indices |-> ret.val.indices,
                            vit |-> vit]]
        /\ pc' = IF vit.ok THEN "decoded" ELSE "done"
    /\ UNCHANGED <<A, B, PI, DEFAULT_EMOTION_ALIASES, call, turns, preds, threads, SUMMARY_CACHE, db, judged>>

\* attach_vulnerability_states_to_turns(turns, indices, vit.states)
AttachStates ==
    /\ pc = "decoded"
    /\ \E att \in {attach_vulnerability_states_to_turns(
                        turns, ret.val.indices, ret.val.vit.val.states,
                        "vulnerability_state")} :
        /\ turns' = att.turns
        /\ ret' = [ok |-> att.ret.ok, val |-> ret.val]
    /\ pc' = "done"
    /\ UNCHANGED <<A, B, PI, DEFAULT_EMOTION_ALIASES, call, preds, threads, SUMMARY_CACHE, db, judged>>

SpecEndToEnd ==
    InitWith(PipelineCalls \cup LabelCalls)
        /\ [][ExtractSequence \/ DecodeSequence \/ AttachStates
              \/ LabelEmotionsOnTurns]_vars

(* ------------------------------- C16 ----------------------------------- *)

\* the indices of the victim turns with a label, ascending, as extraction sees them
VictimIndices(ts) ==
    LET S == {i \in 1..Len(ts) :
                /\ IsVictimTurn(ts[i])
                /\ LabelOfTurn(ts[i]).t = "str"
                /\ Len(LabelOfTurn(ts[i]).s) > 0}
    IN  [k \in 1..Cardinality(S) |->
            (CHOOSE i \in S : Cardinality({j \in S : j <= i}) = k) - 1]

\* the positions of the predicted turns of a labelling call, ascending
PredictedPositions(ts, p) ==
    LET S == {i \in 1..Len(ts) : Predicted(ts, p, i)}
    IN  [k \in 1..Cardinality(S) |->
            CHOOSE i \in S : Cardinality({j \in S : j <= i}) = k]

\* C16: when extraction, decoding and annotation of a turn list have all run, the
\* extracted indices are the victim turns that carry a label, in order, there are
\* as many decoded states as indices, the k-th normalised label is the normal form
\* of the k-th victim turn's label, the k-th decoded state is on the turn at the
\* k-th index and every other turn is as it was; the per-turn hmm field that
\* label_emotions_on_turns writes on the k-th labelled victim turn holds the k-th
\* posterior row and the k-th path state of the run on the labelled turns' pred4
\* labels; and for [offender, victim F, offender, victim N] the labels are F, N at
\* indices 1, 3, their normal forms fear, neutral, and the path has two states, the
\* first being V1.
C16_KthStateOnKthVictimTurn ==
    /\ (pc = "done" /\ call.op = "extract_decode_attach" /\ ret.ok) =>
        LET indices == ret.val.indices
            vit == ret.val.vit.val
        IN  /\ indices = VictimIndices(call.turns)
            /\ Len(vit.states) = Len(indices)
            /\ Len(vit.obs) = Len(indices)
            /\ Len(turns) = Len(call.turns)
            /\ \A k \in 1..Len(indices) :
                /\ Ok(vit.obs[k]) =
                      normalize_emotion(LabelOfTurn(call.turns[indices[k] + 1]), None,
                                        DEFAULT_EMOTION_ALIASES)
                /\ turns[indices[k] + 1] =
                      DictSet(call.turns[indices[k] + 1], "vulnerability_state",
                              StrV(vit.states[k]))
            /\ \A i \in 1..Len(turns) :
                (\A k \in 1..Len(indices) : indices[k] # i - 1) => turns[i] = call.turns[i]
    /\ (pc = "done" /\ call.op = "extract_decode_attach" /\ call.turns = ScenarioTurns) =>
        /\ ret.ok
        /\ ret.val.emotions = << <<"F">>, <<"N">> >>
        /\ ret.val.indices = <<1, 3>>
        /\ ret.val.vit.val.obs = <<fear, neutral>>
        /\ Len(ret.val.vit.val.states) = 2
        /\ ret.val.vit.val.states[1] = V1
    /\ (Done("label_emotions_on_turns") /\ WithHmm(ret.val) # {}) =>
        LET at == PredictedPositions(call.turns, preds)
        IN  \E run \in {run_hmm_on_emotions(
                            [k \in 1..Len(at) |-> ret.val[at[k]]["emotion"].d.pred4])} :
                /\ run.ok
                /\ Len(run.val.gamma) = Len(at)
                /\ \A k \in 1..Len(at) :
                    /\ ret.val[at[k]]["hmm"].d.posterior = run.val.gamma[k]
                    /\ ret.val[at[k]]["hmm"].d.viterbi = run.val.path[k]

\* the scenario has been extracted, decoded and annotated
C16_Witness ==
    /\ pc = "done"
    /\ call.turns = ScenarioTurns
    /\ ret.ok
    /\ ret.val.indices = <<1, 3>>
    /\ turns[2]["vulnerability_state"] = StrV(ret.val.vit.val.states[1])
    /\ turns[4]["vulnerability_state"] = StrV(ret.val.vit.val.states[2])
    /\ "vulnerability_state" \notin DOMAIN turns[1] \cup DOMAIN turns[3]

(* ===================== concurrent decode calls ========================= *)

\* Several callers decode at once. The interpreter switches between them at any
\* bytecode; the model switches wherever a call reads a module global afresh:
\* before each label's normalisation, before the Viterbi pass and before the
\* forward-backward pass. What a call holds in between is local to it.

Callers == {"c1", "c2"}

ConcurrentCalls ==
    { [op |-> "normalize_emotion", label |-> StrV(<<"F">>)],
      [op |-> "normalize_emotion", label |-> StrV(<<"z","z">>)],
      [op |-> "viterbi_decode", seq |-> <<StrV(<<"F">>), StrV(neutral)>>],
      [op |-> "viterbi_decode", seq |-> <<StrV(neutral), StrV(<<"z","z">>)>>],
      [op |-> "viterbi_decode", seq |-> <<>>],
      [op |-> "_forward_backward_gamma", obs_norm |-> <<fear, neutral>>],
      [op |-> "run_hmm_on_emotions", seq |-> <<StrV(<<"F">>), StrV(excitement)>>],
      [op |-> "run_hmm_on_emotions", seq |-> <<StrV(<<"z","z">>)>>],
      [op |-> "run_hmm_on_emotions", seq |-> <<>>] }

\* what the call returns when nothing else runs
Alone(c) ==
    IF c.op = "normalize_emotion"
    THEN normalize_emotion(c.label, None, DEFAULT_EMOTION_ALIASES)
    ELSE IF c.op = "viterbi_decode" THEN viterbi_decode(c.seq, None)
    ELSE IF c.op = "_forward_backward_gamma" THEN forward_backward_gamma(c.obs_norm)
    ELSE run_hmm_on_emotions(c.seq)

\* a call about to start; alone is what it returns when run by itself
Fresh(c) == [call |-> c, pc |-> "call", norm |-> <<>>, vit |-> None, ret |-> None,
             alone |-> Alone(c)]

\* faulty variant of TableAfterLookup: a label the table lacks is stored as neutral
TableAfterLookup_Setdefault(table, s) ==
    IF s \in DOMAIN table \/ s \in DOMAIN EMO_TO_IDX THEN table
    ELSE [k \in DOMAIN table \cup {s} |-> IF k = s THEN neutral ELSE table[k]]

\* emoti_shing_hmm.py 178-201: `aliases = aliases or DEFAULT_EMOTION_ALIASES` binds
\* the module's dict itself; it is tested with `in` and read with [], never assigned
TableAfterLookup(table, s) == table

\* the callers start, each with a call of its own
StartCalls ==
    /\ pc = "call"
    /\ call.op = "concurrent"
    /\ \E calls \in [Callers -> ConcurrentCalls] :
        threads' = [t \in Callers |-> Fresh(calls[t])]
    /\ pc' = "running"
    /\ UNCHANGED <<A, B, PI, DEFAULT_EMOTION_ALIASES, call, ret, turns, preds, SUMMARY_CACHE, db, judged>>

Finish(t, r) == [threads EXCEPT ![t].pc = "done", ![t].ret = r]

\* the labels the call normalises, in order: the one label of normalize_emotion,
\* or the sequence of [normalize_emotion(x) for x in seq]
LabelsOf(c) == IF c.op = "normalize_emotion" THEN <<c.label>> ELSE c.seq

\* viterbi_decode 223-224 and run_hmm_on_emotions 111-112: the empty sequence
CallerEmptySequence(t) ==
    /\ threads[t].pc = "call"
    /\ threads[t].call.op \in {"viterbi_decode", "run_hmm_on_emotions"}
    /\ threads[t].call.seq = <<>>
    /\ threads' =
          Finish(t, IF threads[t].call.op = "viterbi_decode"
                    THEN Failed(Raise("ValueError",
                                      "obs_seq is empty (no emotions to decode)."), <<>>)
                    ELSE Returned(None, <<>>))
    /\ UNCHANGED <<A, B, PI, DEFAULT_EMOTION_ALIASES, call, pc, ret, turns, preds, SUMMARY_CACHE, db, judged>>

\* normalize_emotion on the next label: the whole of a normalize_emotion call, or
\* one pass of [normalize_emotion(x) for x in seq] (emoti_shing_hmm.py 226,
\* runner.py 114), where a raise ends the call
CallerNormaliseLabel(t) ==
    /\ threads[t].pc = "call"
    /\ threads[t].call.op \in {"normalize_emotion", "viterbi_decode", "run_hmm_on_emotions"}
    /\ Len(threads[t].norm) < Len(LabelsOf(threads[t].call))
    /\ LET k == Len(threads[t].norm) + 1
           label == LabelsOf(threads[t].call)[k]
       IN  /\ \E r \in {normalize_emotion(label, None, DEFAULT_EMOTION_ALIASES)} :
                threads' =
                    IF threads[t].call.op = "normalize_emotion" THEN Finish(t, r)
                    ELSE IF ~r.ok THEN Finish(t, Failed(r, NormSteps(k)))
                    ELSE [threads EXCEPT
                            ![t].norm = Append(@, r.val),
                            ![t].pc = IF k = Len(threads[t].call.seq)
                                      THEN "normalised" ELSE "call"]
           /\ DEFAULT_EMOTION_ALIASES' =
                TableAfterLookup(DEFAULT_EMOTION_ALIASES, CleanLabel(label))
    /\ UNCHANGED <<A, B, PI, call, pc, ret, turns, preds, SUMMARY_CACHE, db, judged>>

\* the Viterbi pass over the normalised labels: emoti_shing_hmm.py 228-278, run by
\* viterbi_decode itself or from runner.py 118, where viterbi_decode finds every
\* label already in normal form
CallerViterbi(t) ==
    /\ threads[t].pc = "normalised"
    /\ \E vit \in {Returned(ViterbiResult(threads[t].norm),
                              NormSteps(Len(threads[t].norm))
                                  \o DpSteps(Len(threads[t].norm)))} :
        threads' = IF threads[t].call.op = "viterbi_decode" THEN Finish(t, vit)
                   ELSE [threads EXCEPT ![t].vit = vit, ![t].pc = "decoded"]
    /\ UNCHANGED <<A, B, PI, DEFAULT_EMOTION_ALIASES, call, pc, ret, turns, preds, SUMMARY_CACHE, db, judged>>

\* the forward-backward pass: runner.py 13-94 called directly, or from line 123
CallerForwardBackward(t) ==
    /\ \/ threads[t].pc = "call" /\ threads[t].call.op = "_forward_backward_gamma"
       \/ threads[t].pc = "decoded"
    /\ \E fb \in {forward_backward_gamma(IF threads[t].pc = "call"
                                          THEN threads[t].call.obs_norm
                                          ELSE threads[t].norm)} :
        threads' = IF threads[t].pc = "call" THEN Finish(t, fb)
                   ELSE Finish(t, RunHmmResult(threads[t].norm, threads[t].vit, fb))
    /\ UNCHANGED <<A, B, PI, DEFAULT_EMOTION_ALIASES, call, pc, ret, turns, preds, SUMMARY_CACHE, db, judged>>

CallerStep(t) ==
    /\ pc = "running"
    /\ \/ CallerEmptySequence(t)
       \/ CallerNormaliseLabel(t)
       \/ CallerViterbi(t)
       \/ CallerForwardBackward(t)

SpecConcurrent ==
    InitWith({[op |-> "concurrent"]})
        /\ [][StartCalls \/ \E t \in Callers : CallerStep(t)]_vars

(* ------------------------------- C14 ----------------------------------- *)

\* C14: no step of a decode call changes A, B, PI or the default alias table, and
\* whichever way the steps of two concurrent calls interleave, each call ends with
\* the result it returns when it runs alone.
C14_ParametersOnlyRead ==
    /\ [][/\ A' = A
          /\ B' = B
          /\ PI' = PI
          /\ DEFAULT_EMOTION_ALIASES' = DEFAULT_EMOTION_ALIASES]_vars
    /\ [](\A t \in DOMAIN threads :
            threads[t].pc = "done" => threads[t].ret = threads[t].alone)

\* a decode finished, with the result of a run alone, while another call was
\* between its Viterbi pass and its forward-backward pass
C14_Witness ==
    /\ pc = "running"
    /\ threads["c1"].call.op = "run_hmm_on_emotions"
    /\ threads["c1"].pc = "decoded"
    /\ threads["c2"].call.op = "viterbi_decode"
    /\ threads["c2"].pc = "done"
    /\ threads["c2"].ret.ok
    /\ threads["c2"].ret = viterbi_decode(threads["c2"].call.seq, None)

(* ============ tools_summary.py: summary.make_round_summaries =========== *)

\* A request carries the turns' roles, the guidance written so far by round, the
\* asked round, the mode, the no_cache switch and the victim's profile; texts,
\* emotions and judgements are carried along unread by the code and are left
\* out. A round summary's text is kept as the guidance it quotes.

\* most rounds of a conversation
MaxRound == 2

\* lines 122-129
IsOffender(role) == role \in {"offender", "attacker", "assistant_offender", "system_offender"}
IsVictim(role) == role \in {"victim", "user", "human", "assistant_victim"}

RECURSIVE split_round_pairs(_, _, _, _)
\* lines 132-145: the (last offender index, victim index) pairs from index idx on
split_round_pairs(roles, idx, last_off, pairs) ==
    IF idx >= Len(roles) THEN pairs
    ELSE IF IsOffender(roles[idx + 1])
    THEN split_round_pairs(roles, idx + 1, IntV(idx), pairs)
    ELSE IF IsVictim(roles[idx + 1])
    THEN split_round_pairs(roles, idx + 1, None, Append(pairs, <<last_off, idx>>))
    ELSE split_round_pairs(roles, idx + 1, last_off, pairs)

\* lines 245-254: the asked round, or the number of pairs when none is given
RoundAsked(data, pairs) ==
    IF data.round_no = None \/ data.round_no.i = 0 THEN Len(pairs) ELSE data.round_no.i

\* faulty variant of PacketGuidance: the guidance of every round is passed on
PacketGuidance_AllRounds(gui_map, r, max_round) ==
    IF r \in DOMAIN gui_map THEN gui_map[r] ELSE None

\* lines 284-287: guidance = gui_map.get(r) for r < max_round, else None
PacketGuidance(gui_map, r, max_round) ==
    IF r < max_round /\ r \in DOMAIN gui_map THEN gui_map[r] ELSE None

\* lines 241-307
build_round_packets(data) ==
    LET pairs == split_round_pairs(data.roles, 0, None, <<>>)
        round_no == RoundAsked(data, pairs)
        max_round == IF round_no < Len(pairs) THEN round_no ELSE Len(pairs)
    IN  [round_no |-> max_round,
         packets |-> [r \in 1..max_round |->
                        LET guidance == PacketGuidance(data.guidances, r, max_round)
                        IN  [round |-> r, dialogue |-> pairs[r], guidance |-> guidance,
                             has_guidance |-> guidance # None]]]

\* lines 310-314: the digest of case, run, round and packets, taken to be unique
make_cache_key(case_id, run_no, round_no, packets) == <<case_id, run_no, round_no, packets>>

\* lines 349-355: what the template says of the victim, from the profile's meta
\* and knowledge; an empty text stands for an absent or empty entry
victim_overview(victim_profile) ==
    IF victim_profile.meta = "" /\ victim_profile.knowledge = ""
    THEN <<"no information">>
    ELSE <<"victim", victim_profile.meta, "knowledge", victim_profile.knowledge>>

\* lines 348-386
template_make_output(victim_profile, packets, round_no, mode) ==
    [ok |-> TRUE, mode |-> mode, round_no |-> round_no,
     victim_overview |-> victim_overview(victim_profile),
     round_summaries |-> [k \in 1..Len(packets) |->
                            [round |-> packets[k].round,
                             text |-> packets[k].guidance,
                             has_guidance |-> packets[k].guidance # None]]]

RECURSIVE SortedInsert(_, _)
\* list.sort(key=round) is stable: an item goes behind the items of its round
SortedInsert(sorted, item) ==
    IF sorted = <<>> THEN <<item>>
    ELSE IF sorted[Len(sorted)].round <= item.round THEN Append(sorted, item)
    ELSE Append(SortedInsert(SubSeq(sorted, 1, Len(sorted) - 1), item), sorted[Len(sorted)])

RECURSIVE Cleaned(_, _, _, _)
\* lines 483-497: the items that are dicts with an integer round, the flag of the
\* round round_no forced to False, sorted by round
Cleaned(items, k, round_no, acc) ==
    IF k > Len(items) THEN acc
    ELSE IF "round" \notin DOMAIN items[k]
    THEN Cleaned(items, k + 1, round_no, acc)
    ELSE Cleaned(items, k + 1, round_no,
                 SortedInsert(acc, [round |-> items[k].round, text |-> items[k].text,
                                    has_guidance |-> IF items[k].round = round_no
                                                     THEN FALSE
                                                     ELSE items[k].has_guidance]))

\* lines 427-429: the request is answered with what the result cache holds
served_from_cache(data, cache) ==
    LET built == build_round_packets(data)
    IN  /\ make_cache_key(data.case_id, data.run_no, built.round_no, built.packets)
              \in DOMAIN cache
        /\ ~data.no_cache

\* lines 405-505 for a request without cache_key, given what the LLM answered;
\* returns the reply and the result cache after the call
make_round_summaries(data, cache, reply) ==
    LET built == build_round_packets(data)
        key == make_cache_key(data.case_id, data.run_no, built.round_no, built.packets)
        Store(out) == [ret |-> out,
                       cache |-> [k \in DOMAIN cache \cup {key} |->
                                    IF k = key THEN out ELSE cache[k]]]
    IN  IF key \in DOMAIN cache /\ ~data.no_cache
        THEN [ret |-> cache[key], cache |-> cache]
        ELSE IF data.mode = "template"
        THEN Store(template_make_output(data.victim_profile, built.packets,
                                        built.round_no, "template"))
        ELSE IF "round_summaries" \notin DOMAIN reply
        THEN Store(template_make_output(data.victim_profile, built.packets,
                                        built.round_no, "fallback_template"))
        ELSE Store([ok |-> TRUE, mode |-> "llm", round_no |-> built.round_no,
                    victim_overview |-> IF "victim_overview" \in DOMAIN reply
                                        THEN reply.victim_overview ELSE <<>>,
                    round_summaries |->
                        Cleaned(reply.round_summaries, 1, built.round_no, <<>>)])

\* what the LLM may answer: no JSON object, or round summaries of its own making
LlmReplies ==
    { [raw |-> "not json"],
      [round_summaries |-> [r \in 1..MaxRound |->
                              [round |-> r, text |-> None, has_guidance |-> r < MaxRound]]],
      [round_summaries |-> [r \in 1..MaxRound |->
                              [round |-> r, text |-> None, has_guidance |-> TRUE]]],
      [round_summaries |-> << [round |-> MaxRound, text |-> None, has_guidance |-> TRUE],
                              [text |-> None],
                              [round |-> 1, text |-> None, has_guidance |-> FALSE] >>] }

\* conversations of MaxRound - 1 and of MaxRound rounds, after a system turn
SummaryRoles ==
    { <<"system">> \o [k \in 1..(2 * n) |-> IF k % 2 = 1 THEN "offender" ELSE "victim"] :
        n \in {MaxRound - 1, MaxRound} }

\* a request without a victim profile and one that tells the victim's age
VictimProfiles ==
    { [meta |-> "", knowledge |-> ""], [meta |-> "age 70", knowledge |-> ""] }

SummaryInputs ==
    {[case_id |-> "c1", run_no |-> 1, round_no |-> r, roles |-> q,
      guidances |-> [k \in 1..MaxRound |-> StrV(<<"g">>)], mode |-> m, no_cache |-> nc,
      victim_profile |-> vp] :
        r \in {None} \cup {IntV(k) : k \in 1..MaxRound}, q \in SummaryRoles,
        m \in {"template", "llm"}, nc \in BOOLEAN, vp \in VictimProfiles}

\* one call of the tool; the LLM is asked only when the reply is neither cached
\* nor made from the template
SummaryCall(stage) ==
    /\ call.op = "summary"
    /\ \E data \in SummaryInputs : \E reply \in LlmReplies :
        \E r \in {make_round_summaries(data, SUMMARY_CACHE, reply)} :
            /\ ret' = [ok |-> r.ret.ok, val |-> r.ret, data |-> data,
                       built |-> build_round_packets(data),
                       cached |-> r.cache = SUMMARY_CACHE,
                       served |-> served_from_cache(data, SUMMARY_CACHE)]
            /\ SUMMARY_CACHE' = r.cache
    /\ pc' = stage
    /\ UNCHANGED <<A, B, PI, DEFAULT_EMOTION_ALIASES, call, turns, preds, threads, db, judged>>

\* the first call of the process
MakeRoundSummaries == pc = "call" /\ SummaryCall("done")

\* a later call, which finds the result cache filled
MakeRoundSummariesAgain == pc = "done" /\ SummaryCall("again")

SpecSummary ==
    InitWith({[op |-> "summary"]})
        /\ [][MakeRoundSummaries \/ MakeRoundSummariesAgain]_vars

(* ------------------------------- C17 ----------------------------------- *)

\* C17: after every call asking for round r, also one answered from the result
\* cache, the packet of round r has guidance None and has_guidance False, the
\* round-r entry of round_summaries has has_guidance False, and only entries of
\* rounds 1..r-1 have has_guidance True.
C17_NoCurrentRoundGuidance ==
    (call.op = "summary" /\ pc # "call" /\ ret.data.round_no # None) =>
        LET r == ret.data.round_no.i
            packets == ret.built.packets
            entries == ret.val.round_summaries
        IN  /\ \A k \in 1..Len(packets) :
                /\ packets[k].round = r =>
                      (packets[k].guidance = None /\ ~packets[k].has_guidance)
                /\ packets[k].has_guidance => packets[k].round \in 1..(r - 1)
            /\ \A k \in 1..Len(entries) :
                /\ entries[k].round = r => ~entries[k].has_guidance
                /\ entries[k].has_guidance => entries[k].round \in 1..(r - 1)

(* ------------------------------- C18 ----------------------------------- *)

\* C18: after a successful call with round_no = r, round_summaries holds the rounds
\* 1, 2, ..., r, each once, in this order.
C18_EveryRoundOnceAscending ==
    (call.op = "summary" /\ pc # "call" /\ ret.ok /\ ret.data.round_no # None) =>
        LET r == ret.data.round_no.i
            entries == ret.val.round_summaries
        IN  /\ Len(entries) = r
            /\ \A k \in 1..Len(entries) : entries[k].round = k

(* ===== tools_admin.py: make_judgement, judge, generate_guidance ======== *)

\* The tools of one make_admin_tools(db) share the session db. A verdict is kept
\* by what the tools read of it: phishing, risk score and level, the victim's
\* vulnerabilities and the continue recommendation. The database schema
\* (app.db.models) is one of: no AdminCaseSummary model, an AdminCaseSummary with
\* the verdict's columns, and one with a verdict_json column besides.

\* most admin tool calls in a sequence
MaxCalls == 3

\* most verdict lines that fit into the 8000 characters of AdminCase.evidence
EvidenceLines == 1

AdminCases == {"u1", "u2"}
AdminRuns == {1, 2}
Schemas == {"no_summary", "columns", "verdict_json"}

\* what summarize_run_full may return: a score out of range without a level, a
\* level in capitals
RawVerdicts ==
    { [phishing |-> FALSE, risk |-> [score |-> 120, level |-> ""],
       victim_vulnerabilities |-> <<>>],
      [phishing |-> TRUE, risk |-> [score |-> 60, level |-> "HIGH"],
       victim_vulnerabilities |-> <<"urgency">>] }

\* str.lower on the levels that occur
LowerLevel(level) == IF level = "HIGH" THEN "high" ELSE level

\* lines 1016-1041: score clamped, level derived when unknown, continue set
JudgedVerdict(raw) ==
    LET score == IF raw.risk.score < 0 THEN 0
                 ELSE IF raw.risk.score > 100 THEN 100 ELSE raw.risk.score
        lowered == LowerLevel(raw.risk.level)
        level == IF lowered \in {"low", "medium", "high", "critical"} THEN lowered
                 ELSE IF score >= 75 THEN "critical"
                 ELSE IF score >= 50 THEN "high"
                 ELSE IF score >= 25 THEN "medium" ELSE "low"
    IN  [phishing |-> raw.phishing, risk |-> [score |-> score, level |-> level],
         victim_vulnerabilities |-> raw.victim_vulnerabilities,
         continue |-> IF level = "critical" THEN "stop" ELSE "continue"]

\* lines 750-770: the row of (case_id, run_no) after the upsert
SummaryRow(schema, verdict) ==
    IF schema = "verdict_json"
    THEN [phishing |-> verdict.phishing, risk_score |-> verdict.risk.score,
          risk_level |-> verdict.risk.level,
          vulnerabilities |-> verdict.victim_vulnerabilities, verdict_json |-> verdict]
    ELSE [phishing |-> verdict.phishing, risk_score |-> verdict.risk.score,
          risk_level |-> verdict.risk.level,
          vulnerabilities |-> verdict.victim_vulnerabilities]

\* lines 819-821: the line {"run", "verdict"} appended and the text cut at 8000
\* characters; a line that is cut is no JSON any more and is never read back
EvidenceAfter(evidence, case_id, run_no, verdict) ==
    LET prev == IF case_id \in DOMAIN evidence THEN evidence[case_id] ELSE <<>>
        piece == [run |-> run_no, verdict |-> verdict]
        text == IF Len(prev) < EvidenceLines THEN Append(prev, piece) ELSE prev
    IN  [c \in DOMAIN evidence \cup {case_id} |-> IF c = case_id THEN text ELSE evidence[c]]

\* lines 722-833; stage1 and stage2 tell whether the stage's database work goes
\* through without an exception
persist_verdict(d, schema, case_id, run_no, verdict, stage1, stage2) ==
    LET summary == schema # "no_summary" /\ stage1
        rows == IF summary
                THEN [k \in DOMAIN d.rows \cup {<<case_id, run_no>>} |->
                        IF k = <<case_id, run_no>> THEN SummaryRow(schema, verdict)
                        ELSE d.rows[k]]
                ELSE d.rows
        evidence == IF stage2 THEN EvidenceAfter(d.evidence, case_id, run_no, verdict)
                    ELSE d.evidence
    IN  [db |-> [rows |-> rows, evidence |-> evidence], success |-> summary \/ stage2]

RECURSIVE FirstLineOfRun(_, _, _)
\* lines 888-894: the verdict of the first line of the run, or None
FirstLineOfRun(lines, k, run_no) ==
    IF k > Len(lines) THEN None
    ELSE IF lines[k].run = run_no THEN lines[k].verdict
    ELSE FirstLineOfRun(lines, k + 1, run_no)

\* faulty variant of read_persisted_verdict: the run is not looked at
read_any_run(d, schema, case_id, run_no) ==
    IF \E k \in DOMAIN d.rows : k[1] = case_id
    THEN LET row == d.rows[CHOOSE k \in DOMAIN d.rows : k[1] = case_id]
         IN  [phishing |-> row.phishing,
              risk |-> [score |-> row.risk_score, level |-> row.risk_level],
              victim_vulnerabilities |-> row.vulnerabilities, continue |-> "continue"]
    ELSE IF case_id \in DOMAIN d.evidence /\ d.evidence[case_id] # <<>>
    THEN d.evidence[case_id][1].verdict
    ELSE None

\* lines 836-897
read_persisted_verdict(d, schema, case_id, run_no) ==
    IF schema # "no_summary" /\ <<case_id, run_no>> \in DOMAIN d.rows
    THEN LET row == d.rows[<<case_id, run_no>>]
         IN  IF schema = "verdict_json" THEN row.verdict_json
             ELSE [phishing |-> row.phishing,
                   risk |-> [score |-> row.risk_score, level |-> row.risk_level],
                   victim_vulnerabilities |-> row.vulnerabilities,
                   continue |-> "continue"]
    ELSE IF case_id \in DOMAIN d.evidence
    THEN FirstLineOfRun(d.evidence[case_id], 1, run_no)
    ELSE None

\* lines 990-1057: returns the reply and the database after the call; first and
\* retry are the outcomes <<stage1, stage2>> of the two attempts to persist
make_judgement(d, schema, case_id, run_no, raw, first, retry) ==
    LET verdict == JudgedVerdict(raw)
        once == persist_verdict(d, schema, case_id, run_no, verdict, first[1], first[2])
        done == IF once.success THEN once
                ELSE persist_verdict(once.db, schema, case_id, run_no, verdict,
                                     retry[1], retry[2])
    IN  [db |-> done.db,
         ret |-> [tool |-> "admin.make_judgement", ok |-> TRUE,
                  persisted |-> done.success, case_id |-> case_id, run_no |-> run_no,
                  verdict |-> verdict]]

\* lines 1064-1089
judge(d, schema, case_id, run_no) ==
    LET saved == read_persisted_verdict(d, schema, case_id, run_no)
    IN  IF saved # None
        THEN [tool |-> "admin.judge", ok |-> TRUE, case_id |-> case_id,
              run_no |-> run_no, verdict |-> saved]
        ELSE [tool |-> "admin.judge", ok |-> FALSE, case_id |-> case_id,
              run_no |-> run_no]

\* lines 1100-1142; generated tells whether dynamic_generator.generate_guidance
\* returns or raises
generate_guidance(d, schema, case_id, payload_run_no, generated) ==
    LET run_no == IF payload_run_no = None \/ payload_run_no.i = 0 THEN 1
                  ELSE payload_run_no.i
        verdict == IF case_id \in AdminCases
                   THEN read_persisted_verdict(d, schema, case_id, run_no) ELSE None
    IN  IF case_id \notin AdminCases
        THEN [tool |-> "admin.generate_guidance", ok |-> FALSE, case_id |-> case_id,
              run_no |-> run_no, error |-> "invalid_case_id"]
        ELSE IF verdict = None
        THEN [tool |-> "admin.generate_guidance", ok |-> FALSE, case_id |-> case_id,
              run_no |-> run_no, error |-> "no_saved_verdict"]
        ELSE IF ~generated
        THEN [tool |-> "admin.generate_guidance", ok |-> FALSE, case_id |-> case_id,
              run_no |-> run_no, error |-> "generator_failed"]
        ELSE [tool |-> "admin.generate_guidance", ok |-> TRUE, case_id |-> case_id,
              run_no |-> run_no, verdict |-> verdict,
              risk_level |-> verdict.risk.level,
              targets |-> verdict.victim_vulnerabilities]

\* the outcomes <<stage1, stage2>> of the first attempt to persist and of the
\* retry, which is made only after an attempt that stored nothing
PersistOutcomes ==
    {o \in (BOOLEAN \X BOOLEAN) \X (BOOLEAN \X BOOLEAN) :
        o[1] = <<FALSE, FALSE>> \/ o[2] = <<TRUE, TRUE>>}

AdminToolCall == call.op = "admin" /\ judged.calls < MaxCalls

AdminUnchanged ==
    UNCHANGED <<A, B, PI, DEFAULT_EMOTION_ALIASES, call, turns, preds, threads, SUMMARY_CACHE>>

MakeJudgement ==
    /\ AdminToolCall
    /\ \E case_id \in AdminCases, run_no \in AdminRuns, raw \in RawVerdicts,
          outcome \in PersistOutcomes :
        \E r \in {make_judgement(db, call.schema, case_id, run_no, raw,
                                  outcome[1], outcome[2])} :
            /\ db' = r.db
            /\ ret' = r.ret
            /\ judged' = [calls |-> judged.calls + 1,
                          persisted |-> IF r.ret.persisted
                                        THEN judged.persisted \cup
                                             {[case_id |-> case_id, run_no |-> run_no,
                                               verdict |-> r.ret.verdict]}
                                        ELSE judged.persisted]
    /\ pc' = "done"
    /\ AdminUnchanged

Judge ==
    /\ AdminToolCall
    /\ \E case_id \in AdminCases, run_no \in AdminRuns :
        ret' = judge(db, call.schema, case_id, run_no)
    /\ judged' = [judged EXCEPT !.calls = @ + 1]
    /\ pc' = "done"
    /\ UNCHANGED db
    /\ AdminUnchanged

GenerateGuidance ==
    /\ AdminToolCall
    /\ \E case_id \in AdminCases \cup {"not-a-uuid"},
          payload_run_no \in {None} \cup {IntV(n) : n \in AdminRuns},
          generated \in BOOLEAN :
        ret' = generate_guidance(db, call.schema, case_id, payload_run_no, generated)
    /\ judged' = [judged EXCEPT !.calls = @ + 1]
    /\ pc' = "done"
    /\ UNCHANGED db
    /\ AdminUnchanged

SpecAdmin ==
    InitWith({[op |-> "admin", schema |-> s] : s \in Schemas})
        /\ [][MakeJudgement \/ Judge \/ GenerateGuidance]_vars

(* ------------------------------- C19 ----------------------------------- *)

\* the verdicts that make_judgement calls have persisted for (case_id, run_no)
PersistedFor(case_id, run_no) ==
    {p.verdict : p \in {q \in judged.persisted :
                            q.case_id = case_id /\ q.run_no = run_no}}

\* what generate_guidance and the generator read of a verdict
SameVerdict(v, w) ==
    /\ v.phishing = w.phishing
    /\ v.risk = w.risk
    /\ v.victim_vulnerabilities = w.victim_vulnerabilities

\* C19: in every sequence of admin tool calls, when generate_guidance returns ok
\* for (case_id, run_no) an earlier make_judgement has persisted a verdict for this
\* case and run, and the verdict used, its risk level and its targets are those of
\* a verdict persisted for this run; as long as none is persisted,
\* generate_guidance returns the error no_saved_verdict and judge returns ok false.
C19_GuidanceNeedsPersistedVerdict ==
    (call.op = "admin" /\ pc = "done") =>
        /\ (ret.tool = "admin.generate_guidance" /\ ret.ok) =>
              \E v \in PersistedFor(ret.case_id, ret.run_no) :
                  /\ SameVerdict(ret.verdict, v)
                  /\ ret.risk_level = v.risk.level
                  /\ ret.targets = v.victim_vulnerabilities
        /\ (/\ ret.tool = "admin.generate_guidance"
            /\ ret.case_id \in AdminCases
            /\ PersistedFor(ret.case_id, ret.run_no) = {}) =>
              (~ret.ok /\ ret.error = "no_saved_verdict")
        /\ (ret.tool = "admin.judge" /\ PersistedFor(ret.case_id, ret.run_no) = {}) =>
              ~ret.ok

\* guidance made for run 2 from the verdict persisted for run 2 while run 1 of
\* the case holds another verdict
C19_Witness ==
    /\ call.op = "admin" /\ pc = "done"
    /\ ret.tool = "admin.generate_guidance" /\ ret.ok /\ ret.run_no = 2
    /\ PersistedFor(ret.case_id, 2) # {}
    /\ PersistedFor(ret.case_id, 1) # {}
    /\ PersistedFor(ret.case_id, 1) \cap PersistedFor(ret.case_id, 2) = {}

\* guidance asked before any verdict of the run is persisted
C19_RefusedWitness ==
    /\ call.op = "admin" /\ pc = "done"
    /\ ret.tool = "admin.generate_guidance" /\ ret.error = "no_saved_verdict"
    /\ PersistedFor(ret.case_id, ret.run_no) = {}
    /\ PersistedFor(ret.case_id, 3 - ret.run_no) # {}

(* ------------------------------- C21 ----------------------------------- *)

\* the prediction object without its probs4 field
WithoutProbs4(d) == DictV([d EXCEPT !["probs4"] = Absent])

\* C21: for a prediction object without pred4 whose pred8 is present and is not
\* the surprise label, normalize_emotion returns what it returns for pred8,
\* whatever the other fields hold; probs4 decides the result only when neither
\* pred4 nor pred8 is present, so an object holding one of them normalises as it
\* does without its probs4.
C21_Pred8BeforeProbs4 ==
    (Done("normalize_emotion") /\ call.label.t = "dict") =>
        LET d == call.label.d
            of(v) == normalize_emotion(v, call.aliases, DEFAULT_EMOTION_ALIASES)
        IN  /\ (/\ ~Present(d, "pred4")
                /\ Present(d, "pred8")
                /\ ~(d["pred8"].t = "str" /\ Strip(d["pred8"].s) = SURPRISE)) =>
                  ret = of(d["pred8"])
            /\ (Present(d, "pred4") \/ Present(d, "pred8")) =>
                  ret = of(WithoutProbs4(d))

(* ------------------------------- C22 ----------------------------------- *)

\* the column order of probs4: neutral, fear, anger, excitement
Probs4Columns == <<neutral, fear, anger, excitement>>

\* the prediction object carries a list of four numbers and no label
OnlyProbs4(d) ==
    /\ ~Present(d, "pred4")
    /\ ~Present(d, "pred8")
    /\ d["probs4"].t = "list"
    /\ Len(d["probs4"].l) = 4
    /\ \A k \in 1..4 : d["probs4"].l[k].t = "int"

\* C22: for a prediction object that carries only a list probs4 of four numbers,
\* normalize_emotion returns the symbol of the column neutral, fear, anger,
\* excitement that holds the largest number, the leftmost such column on a tie;
\* a probs4 that is no list of four elements counts as missing, so an object
\* holding nothing else is refused.
C22_Probs4ArgmaxInColumnOrder ==
    (Done("normalize_emotion") /\ call.label.t = "dict") =>
        LET d == call.label.d
            p == d["probs4"]
        IN  /\ OnlyProbs4(d) =>
                  \E k \in 1..4 :
                      /\ \A m \in 1..4 : p.l[m].i <= p.l[k].i
                      /\ \A m \in 1..(k - 1) : p.l[m].i < p.l[k].i
                      /\ ret = Ok(Probs4Columns[k])
            /\ (/\ ~Present(d, "pred4")
                /\ ~Present(d, "pred8")
                /\ (p.t # "list" \/ Len(p.l) # 4)) =>
                  (~ret.ok /\ ret.msg = "Unsupported emotion dict (no usable keys)")

\* only probs4, largest in the second column: fear, where the storage order of
\* EMOTIONS has anger
C22_Witness ==
    /\ Done("normalize_emotion")
    /\ call.label = DictV([pred4 |-> Absent, pred8 |-> None, surprise_to |-> Absent,
                           probs4 |-> ListV(<<IntV(10), IntV(70), IntV(15), IntV(5)>>)])
    /\ ret = Ok(fear)

\* the first and the last column tie: the first wins
C22_TieWitness ==
    /\ Done("normalize_emotion")
    /\ call.label.t = "dict"
    /\ OnlyProbs4(call.label.d)
    /\ call.label.d["probs4"] = ListV(<<IntV(40), IntV(10), IntV(10), IntV(40)>>)
    /\ ret = Ok(neutral)

(* ------------------------------- C24 ----------------------------------- *)

\* the labels the turn carries under the recognised emotion keys: the values that
\* are not None and not blank, a prediction object counting by its label
UsableLabels(t) ==
    {extract_emotion_label(t[EMOTION_KEYS[k]]) :
        k \in {m \in 1..Len(EMOTION_KEYS) : EMOTION_KEYS[m] \in DOMAIN t}} \ {None}

\* C24: extract_victim_emotion_sequence skips a victim-role turn exactly when none
\* of the keys emotion, emotion_label, emotionTag, emotion_tag holds a usable
\* value on it, and every label it returns is a label the turn at its index
\* carries under one of these keys.
C24_SkippedIffNoUsableEmotion ==
    Done("extract_victim_emotion_sequence") =>
        LET input == call.turns
            indices == ret.val.indices
            extracted == {indices[k] + 1 : k \in 1..Len(indices)}
        IN  /\ \A i \in 1..Len(input) :
                IsVictimTurn(input[i]) =>
                    (i \notin extracted <=> UsableLabels(input[i]) = {})
            /\ \A k \in 1..Len(indices) :
                StrV(ret.val.emotions[k]) \in UsableLabels(input[indices[k] + 1])

(* ------------------------------- C25 ----------------------------------- *)

\* Under Table 4 and Table 5 no two candidates of a maximum are equal on the
\* sequences decoded here, so the tie rule is also exercised on a transition
\* table a maintainer may put in place of Table 4: all transitions equal. With it
\* V1 and V2, whose rows of _B are equal, tie.
A_RAW_EQUAL ==
    Mat0(<< <<Dec(33), Dec(33), Dec(33)>>,
            <<Dec(33), Dec(33), Dec(33)>>,
            <<Dec(33), Dec(33), Dec(33)>> >>)

TransitionTables == {normalize_rows(A_RAW).val, normalize_rows(A_RAW_EQUAL).val}

\* the module as loaded from either transition table, one decode about to be made
InitTieBreak ==
    /\ A \in TransitionTables
    /\ B = B_TABLE
    /\ PI = PI_TABLE
    /\ DEFAULT_EMOTION_ALIASES = DictOf(AliasItems)
    /\ call \in ViterbiCalls
    /\ pc = "call"
    /\ ret = None
    /\ turns = <<>>
    /\ preds = <<>>
    /\ threads = <<>>
    /\ SUMMARY_CACHE = <<>>
    /\ db = [rows |-> <<>>, evidence |-> <<>>]
    /\ judged = [calls |-> 0, persisted |-> {}]

SpecTieBreak == InitTieBreak /\ [][ViterbiDecode]_vars

\* delta[t-1][i] + log A[i][j] for every predecessor i
Candidates(prev, j) == [i \in 0..(N - 1) |-> prev[i] * Scaled(A[i][j], AScale)]

\* the indices attaining the maximum of f
Top(f) == {i \in DOMAIN f : \A m \in DOMAIN f : f[m] <= f[i]}

\* the smallest index attaining the maximum of f
LowestTop(f) == CHOOSE i \in Top(f) : \A m \in Top(f) : i <= m

\* C25: in every result of viterbi_decode psi[t][j] is the smallest predecessor
\* index i attaining the maximum of delta[t-1][i] + log A[i][j], the final state
\* is the smallest index attaining the maximum of delta[T-1], and the returned
\* path is the one that backtracking through psi gives from the final state.
C25_TiesGoToLowestIndex ==
    (Done("viterbi_decode") /\ ret.ok) =>
        LET T == Len(ret.val.states)
            delta == ret.val.delta
            psi == ret.val.psi
            path == PathIdx(ret.val.states)
        IN  /\ \A t \in 2..T : \A j \in 0..(N - 1) :
                psi[t][j] = LowestTop(Candidates(delta[t - 1], j))
            /\ path[T] = LowestTop(delta[T])
            /\ \A t \in 2..T : path[t - 1] = psi[t][path[t]]

\* with equal transitions, V1 and V2 tie as predecessors and as final states of
\* [neutral, anger, anger]: V1 wins both times
C25_Witness ==
    /\ Done("viterbi_decode")
    /\ ret.ok
    /\ ret.val.obs = <<neutral, anger, anger>>
    /\ Top(Candidates(ret.val.delta[2], 0)) = {0, 1}
    /\ ret.val.psi[3][0] = 0
    /\ Top(ret.val.delta[3]) = {0, 1}
    /\ ret.val.states = <<V1, V1, V1>>

\* under Table 4 the maxima of the same decode are attained once each
C25_FixedTableWitness ==
    /\ Done("viterbi_decode")
    /\ ret.ok
    /\ A = normalize_rows(A_RAW).val
    /\ ret.val.obs = <<neutral, anger, anger>>
    /\ \A t \in 2..3 : \A j \in 0..(N - 1) :
          Cardinality(Top(Candidates(ret.val.delta[t - 1], j))) = 1
    /\ Cardinality(Top(ret.val.delta[3])) = 1

(* ------------------------------- C30 ----------------------------------- *)

\* C30: under the fixed parameters, for every sequence of canonical observations
\* of length T >= 2 the path returned by viterbi_decode holds V1 at its first
\* position and at no later one.
C30_V1OnlyAtFirstPosition ==
    (Done("viterbi_decode") /\ Len(call.obs_seq) >= 2 /\ AllCanonical(call.obs_seq)) =>
        /\ ret.ok
        /\ ret.val.states[1] = V1
        /\ \A k \in 2..Len(ret.val.states) : ret.val.states[k] # V1

\* three neutral observations, for which V1 emits as likely as V2: the path
\* leaves V1 and stays away
C30_Witness ==
    /\ Done("viterbi_decode")
    /\ call.obs_seq = <<StrV(neutral), StrV(neutral), StrV(neutral)>>
    /\ ret.ok
    /\ ret.val.states[1] = V1
    /\ V1 \notin {ret.val.states[k] : k \in 2..3}
    /\ ret.val.state_counts[V1] = 1

(* ------------------------------- C23 ----------------------------------- *)

\* rows a matrix handed to _normalize_rows may hold: a row of Table 4, rows
\* summing to zero, a row with a negative sum, a row with a negative entry and a
\* positive sum
ParameterRows ==
    { List0(<<Dec(22), Dec(44), Dec(33)>>),
      List0(<<Dec(50), Dec(50)>>),
      List0(<<RZero, RZero, RZero>>),
      List0(<<Dec(10), Dec(-10)>>),
      List0(<<Dec(-20), Dec(10)>>),
      List0(<<Dec(-10), Dec(30)>>) }

NormalizeRowsCalls ==
    {[op |-> "_normalize_rows", mat |-> List0(q)] : q \in SeqsOf(ParameterRows, 1, 2)}

NormalizeRows ==
    /\ pc = "call"
    /\ call.op = "_normalize_rows"
    /\ ret' = normalize_rows(call.mat)
    /\ pc' = "done"
    /\ UNCHANGED <<A, B, PI, DEFAULT_EMOTION_ALIASES, call, turns, preds, threads, SUMMARY_CACHE, db, judged>>

\* the module after import, with a row normalisation or a decode about to be made
SpecParameters ==
    InitWith(NormalizeRowsCalls \cup ViterbiCalls \cup ForwardBackwardCalls)
        /\ [][NormalizeRows \/ ViterbiDecode \/ ForwardBackwardGamma]_vars

\* the ratios of the rows of Table 4
TransitionRatios == Mat0(<< <<22, 44, 33>>, <<22, 33, 44>>, <<22, 33, 44>> >>)

\* the row sums to 1 and has no negative entry
IsDistribution(row) == RSum(row) = ROne /\ \A k \in DOMAIN row : row[k].n >= 0

\* C23: in every state each row of A sums to 1, has the ratios of its row of
\* Table 4 (22:44:33 for V1, 22:33:44 for V2 and V3) and no negative entry, each
\* row of _B sums to 1 without a negative entry, and _PI is (1, 0, 0);
\* _normalize_rows raises ValueError exactly for a matrix with a row whose sum is
\* zero or negative, and otherwise returns every row divided by its sum.
C23_ParametersAreDistributions ==
    /\ DOMAIN A = 0..(N - 1)
    /\ \A r \in DOMAIN A :
        /\ IsDistribution(A[r])
        /\ \A k \in DOMAIN A[r] : \A m \in DOMAIN A[r] :
              RMul(A[r][k], Rat(TransitionRatios[r][m], 1))
                  = RMul(A[r][m], Rat(TransitionRatios[r][k], 1))
    /\ \A r \in DOMAIN B : IsDistribution(B[r])
    /\ PI = List0(<<ROne, RZero, RZero>>)
    /\ Done("_normalize_rows") =>
        LET mat == call.mat
            bad == {r \in DOMAIN mat : RSum(mat[r]).n <= 0}
        IN  /\ bad # {} <=> ~ret.ok
            /\ ~ret.ok => ret.exc = "ValueError"
            /\ ret.ok => \A r \in DOMAIN mat :
                  /\ RSum(ret.val[r]) = ROne
                  /\ \A k \in DOMAIN mat[r] :
                        RMul(ret.val[r][k], RSum(mat[r])) = mat[r][k]

\* a matrix whose second row sums to zero is refused, while A, loaded through the
\* same function, is Table 4 over 99
C23_Witness ==
    /\ Done("_normalize_rows")
    /\ call.mat = List0(<<List0(<<Dec(22), Dec(44), Dec(33)>>),
                          List0(<<Dec(10), Dec(-10)>>)>>)
    /\ ~ret.ok
    /\ A[0] = List0(<<Rat(22, 99), Rat(44, 99), Rat(33, 99)>>)

\* a matrix of two rows with positive sums is normalised
C23_NormalisedWitness ==
    /\ Done("_normalize_rows")
    /\ call.mat = List0(<<List0(<<Dec(22), Dec(44), Dec(33)>>),
                          List0(<<Dec(-10), Dec(30)>>)>>)
    /\ ret.ok
    /\ ret.val[1] = List0(<<Rat(-1, 2), Rat(3, 2)>>)

(* ------------------------------- C26 ----------------------------------- *)

\* C26: whenever attach_vulnerability_states_to_turns raises, for a length
\* mismatch or for an invalid state name at any position of the states, every
\* turn of the caller's list is as it was before the call.
C26_FailureLeavesTurnsUntouched ==
    (Done("attach_vulnerability_states_to_turns") /\ ~ret.ok) => turns = call.turns

(* ------------------------------- C27 ----------------------------------- *)

\* A caller holding an emotion value takes its label with _extract_emotion_label
\* and then normalises both the label, as viterbi_decode does with an extracted
\* sequence, and the value itself. The values are the labels of the
\* normalize_emotion calls; a prediction object whose pred4 is itself an object
\* is left out, the str() form of a dict not being modelled.
AgreementCalls ==
    {[op |-> "label_then_normalize", value |-> v] :
        v \in {l \in KeyLabels \cup OtherLabels \cup DictLabels :
                  l.t = "dict" => l.d["pred4"].t # "dict"}}

\* emotion_sequence.py lines 7-45
ExtractEmotionLabel ==
    /\ pc = "call"
    /\ call.op = "label_then_normalize"
    /\ ret' = [label |-> extract_emotion_label(call.value)]
    /\ pc' = IF ret'.label = None THEN "done" ELSE "labelled"
    /\ UNCHANGED <<A, B, PI, DEFAULT_EMOTION_ALIASES, call, turns, preds, threads, SUMMARY_CACHE, db, judged>>

\* emoti_shing_hmm.py lines 137-201, on the label and on the value
NormalizeLabelAndValue ==
    /\ pc = "labelled"
    /\ call.op = "label_then_normalize"
    /\ ret' = [label |-> ret.label,
               of_label |-> normalize_emotion(ret.label, None, DEFAULT_EMOTION_ALIASES),
               of_value |-> normalize_emotion(call.value, None, DEFAULT_EMOTION_ALIASES)]
    /\ pc' = "done"
    /\ UNCHANGED <<A, B, PI, DEFAULT_EMOTION_ALIASES, call, turns, preds, threads, SUMMARY_CACHE, db, judged>>

SpecAgreement ==
    InitWith(AgreementCalls) /\ [][ExtractEmotionLabel \/ NormalizeLabelAndValue]_vars

\* C27: for every emotion value, a string or a prediction object, for which
\* _extract_emotion_label returns a label, normalize_emotion of the label and
\* normalize_emotion of the value both fail or both return the same symbol.
C27_LabelAndValueNormaliseAlike ==
    (Done("label_then_normalize") /\ ret.label # None) =>
        /\ ret.of_label.ok = ret.of_value.ok
        /\ ret.of_label.ok => ret.of_label.val = ret.of_value.val

(* ------------------------------- C28 ----------------------------------- *)

\* C28: a result served from SUMMARY_CACHE is a result that a fresh computation
\* of the current request produces for some answer of the LLM; a request is
\* never answered with the result of a request of another mode or of another
\* victim profile.
C28_CachedEqualsFresh ==
    (call.op = "summary" /\ pc # "call" /\ ret.served) =>
        \E reply \in LlmReplies :
            make_round_summaries(ret.data, <<>>, reply).ret = ret.val

(* ---------------- tools_admin: admin.save_prevention -------------------- *)

\* Concurrent requests call save_prevention with sessions of their own on one
\* database; a query sees the rows committed so far. The PersonalizedPrevention
\* model (app.db.models) either lets a case have several active rows or has the
\* database refuse a second active row of a case at commit.
PreventionSchemas == {"plain", "unique_active"}

\* what the lookup of lines 1236-1247 does: it finds the latest active row of
\* the case if there is one, or it raises
QueryOutcomes == {"answered", "raised"}

\* a payload: the case, and whether _SavePreventionInput accepts it
PreventionPayloads == [case_id : AdminCases, valid : BOOLEAN]

\* the indices of the active rows of a case
ActiveRows(rows, case_id) ==
    {k \in 1..Len(rows) : rows[k].case_id = case_id /\ rows[k].is_active}

\* lines 1236-1247: the active rows of the case, newest first, .first()
LatestActive(rows, case_id) ==
    rows[CHOOSE k \in ActiveRows(rows, case_id) :
            \A j \in ActiveRows(rows, case_id) : j <= k]

\* the requests arrive, each with a payload of its own
StartSavePrevention ==
    /\ pc = "call"
    /\ call.op = "save_prevention"
    /\ \E payloads \in [Callers -> PreventionPayloads] :
        threads' = [t \in Callers |-> [call |-> payloads[t], pc |-> "call", ret |-> None]]
    /\ pc' = "running"
    /\ UNCHANGED <<A, B, PI, DEFAULT_EMOTION_ALIASES, call, ret, turns, preds,
                   SUMMARY_CACHE, db, judged>>

\* lines 1229-1251: the payload is validated, then the latest active row of the
\* case is looked up; its id is returned if there is one, and a lookup that
\* raises is passed over
SavePreventionLookup(t) ==
    /\ pc = "running"
    /\ call.op = "save_prevention"
    /\ threads[t].pc = "call"
    /\ IF ~threads[t].call.valid
       THEN threads' = [threads EXCEPT ![t].pc = "done",
                                       ![t].ret = Raise("HTTPException", "422")]
       ELSE \E outcome \in QueryOutcomes :
              IF outcome = "answered"
                 /\ ActiveRows(db.preventions, threads[t].call.case_id) # {}
              THEN threads' =
                     [threads EXCEPT
                        ![t].pc = "done",
                        ![t].ret = Ok(StrV(IntToStr(
                            LatestActive(db.preventions, threads[t].call.case_id).id)))]
              ELSE threads' = [threads EXCEPT ![t].pc = "insert"]
    /\ UNCHANGED <<A, B, PI, DEFAULT_EMOTION_ALIASES, call, pc, ret, turns, preds,
                   SUMMARY_CACHE, db, judged>>

\* lines 1253-1264: an active row of the case is added and committed, and its id
\* is returned; under the unique schema the commit of a second active row raises
SavePreventionInsert(t) ==
    /\ pc = "running"
    /\ call.op = "save_prevention"
    /\ threads[t].pc = "insert"
    /\ IF call.schema = "unique_active"
          /\ ActiveRows(db.preventions, threads[t].call.case_id) # {}
       THEN /\ threads' = [threads EXCEPT ![t].pc = "done",
                                          ![t].ret = Raise("IntegrityError", "commit")]
            /\ db' = db
       ELSE /\ db' = [db EXCEPT !.preventions =
                        Append(@, [id |-> Len(@) + 1,
                                   case_id |-> threads[t].call.case_id,
                                   is_active |-> TRUE])]
            /\ threads' = [threads EXCEPT
                             ![t].pc = "done",
                             ![t].ret = Ok(StrV(IntToStr(Len(db.preventions) + 1)))]
    /\ UNCHANGED <<A, B, PI, DEFAULT_EMOTION_ALIASES, call, pc, ret, turns, preds,
                   SUMMARY_CACHE, judged>>

InitPrevention ==
    /\ A = normalize_rows(A_RAW).val
    /\ B = B_TABLE
    /\ PI = PI_TABLE
    /\ DEFAULT_EMOTION_ALIASES = DictOf(AliasItems)
    /\ call \in [op : {"save_prevention"}, schema : PreventionSchemas]
    /\ pc = "call"
    /\ ret = None
    /\ turns = <<>>
    /\ preds = <<>>
    /\ threads = <<>>
    /\ SUMMARY_CACHE = <<>>
    /\ db = [rows |-> <<>>, evidence |-> <<>>, preventions |-> <<>>]
    /\ judged = [calls |-> 0, persisted |-> {}]

SpecPrevention ==
    InitPrevention
        /\ [][StartSavePrevention
                \/ (\E t \in Callers : SavePreventionLookup(t))
                \/ (\E t \in Callers : SavePreventionInsert(t))]_vars

(* ------------------------------- C29 ----------------------------------- *)

\* C29: in every state reached by save_prevention calls, a case has at most one
\* active PersonalizedPrevention row, and every finished call with an accepted
\* payload has returned the id of the active row of its case.
C29_OneActiveRowPerCase ==
    (call.op = "save_prevention" /\ pc = "running") =>
        /\ \A c \in AdminCases : Cardinality(ActiveRows(db.preventions, c)) <= 1
        /\ \A t \in Callers :
              (threads[t].pc = "done" /\ threads[t].call.valid) =>
                  /\ ActiveRows(db.preventions, threads[t].call.case_id) # {}
                  /\ threads[t].ret =
                        Ok(StrV(IntToStr(
                            LatestActive(db.preventions, threads[t].call.case_id).id)))

==============================================================================
